---------------------------- MODULE Spec2Model ----------------------------
(***************************************************************************)
(* WCAG 2.1 rule-evaluation core and report builder of wcag-mcp.           *)
(*                                                                         *)
(* Every check function is an operator that maps its input record to the   *)
(* ordered sequence of CheckResult records the TypeScript function         *)
(* returns.  Spec calls every exported check and orchestrator on its own:  *)
(* the function runs on its arguments and its verdicts are returned.       *)
(* SpecReport hands a verdict sequence to a report builder (the core's or  *)
(* the text server's own) and returns the response.                        *)
(*                                                                         *)
(* Conventions                                                             *)
(*  - An optional field that is undefined is absent from the record's      *)
(*    DOMAIN; a field that is present holds a value of its declared type.  *)
(*  - Pixel sizes and contrast ratios are fixed-point integers in          *)
(*    hundredths (16px = 1600, 4.5:1 = 450); relative luminance is in      *)
(*    millionths.                                                          *)
(*  - Strings are TLA+ strings; non-ASCII glyphs of the source's literals  *)
(*    are transliterated ("->" for the arrow, "x" for the multiplication   *)
(*    sign, ">=" for the comparison sign, "[ok]" / "[x]" for the check     *)
(*    marks, and ASCII rules and tags for the report's box drawing and     *)
(*    emoji).                                                              *)
(***************************************************************************)
EXTENDS Integers, Sequences, FiniteSets, TLC

VARIABLES pc, tool, args, results, report,
          earlier     \* history: a call of the session picked for comparison

vars == <<pc, tool, args, results, report, earlier>>

-----------------------------------------------------------------------------
(* Bounds of the model                                                     *)

\* longest verdict sequence handed directly to the report builder
MaxVerdicts == 3

\* most headings, landmarks, pages, components or issues in one input
MaxItems == 3

-----------------------------------------------------------------------------
(* JavaScript values and strings                                           *)

\* the object with no own properties: the starting point of a record whose
\* optional properties are all undefined
EmptyRecord == [x \in {} |-> TRUE]

\* r.f is not undefined
Has(r, f) == f \in DOMAIN r

\* truthiness of an optional boolean property
Truthy(r, f) == Has(r, f) /\ r[f] = TRUE

\* truthiness of an optional string property (an empty string is falsy)
TruthyStr(r, f) == Has(r, f) /\ r[f] # ""

\* { key: cond ? value : undefined }
Prop(key, cond, value) == IF cond THEN key :> value ELSE EmptyRecord

\* a || b || ... over optional boolean properties, as a value property:
\* the first truthy operand, else the last operand (possibly undefined)
OrValue(r, fields) ==
    IF \E i \in 1..Len(fields) : Truthy(r, fields[i])
    THEN "value" :> TRUE
    ELSE IF Has(r, fields[Len(fields)]) THEN "value" :> FALSE ELSE EmptyRecord

\* a && b over optional boolean properties, as a value property: the first
\* falsy operand, else the last operand
AndValue(r, fields) ==
    IF \A i \in 1..Len(fields) : Truthy(r, fields[i])
    THEN "value" :> TRUE
    ELSE LET i == CHOOSE j \in 1..Len(fields) :
                      /\ ~Truthy(r, fields[j])
                      /\ \A k \in 1..(j - 1) : Truthy(r, fields[k])
         IN  IF Has(r, fields[i]) THEN "value" :> FALSE ELSE EmptyRecord

\* all partial records over a set of optional boolean fields
OptBools(fields) == UNION {[S -> BOOLEAN] : S \in SUBSET fields}

CharAt(s, i) == SubSeq(s, i, i)

UpperCase == "ABCDEFGHIJKLMNOPQRSTUVWXYZ"

LowerCase == "abcdefghijklmnopqrstuvwxyz"

LowerChar(c) ==
    IF \E i \in 1..26 : CharAt(UpperCase, i) = c
    THEN CharAt(LowerCase, CHOOSE i \in 1..26 : CharAt(UpperCase, i) = c)
    ELSE c

RECURSIVE toLowerCase(_)
toLowerCase(s) ==
    IF Len(s) = 0 THEN ""
    ELSE LowerChar(CharAt(s, 1)) \o toLowerCase(SubSeq(s, 2, Len(s)))

IsSpace(c) == c \in {" ", "\t", "\n", "\r"}

RECURSIVE trimStart(_)
trimStart(s) ==
    IF Len(s) > 0 /\ IsSpace(CharAt(s, 1))
    THEN trimStart(SubSeq(s, 2, Len(s)))
    ELSE s

RECURSIVE trimEnd(_)
trimEnd(s) ==
    IF Len(s) > 0 /\ IsSpace(CharAt(s, Len(s)))
    THEN trimEnd(SubSeq(s, 1, Len(s) - 1))
    ELSE s

trim(s) == trimEnd(trimStart(s))

startsWith(s, p) == Len(p) <= Len(s) /\ SubSeq(s, 1, Len(p)) = p

includes(s, p) ==
    \E i \in 1..(Len(s) - Len(p) + 1) : SubSeq(s, i, i + Len(p) - 1) = p

\* String.prototype.split with a one-character separator: the pieces of s
\* from position start on
RECURSIVE splitFrom(_, _, _)
splitFrom(s, sep, start) ==
    LET hits == {i \in start..Len(s) : CharAt(s, i) = sep}
    IN  IF hits = {} THEN << SubSeq(s, start, Len(s)) >>
        ELSE LET p == CHOOSE i \in hits : \A j \in hits : i <= j
             IN  << SubSeq(s, start, p - 1) >> \o splitFrom(s, sep, p + 1)

split(s, sep) == splitFrom(s, sep, 1)

\* Array.prototype.join
RECURSIVE join(_, _)
join(a, sep) ==
    IF Len(a) = 0 THEN ""
    ELSE IF Len(a) = 1 THEN a[1]
         ELSE a[1] \o sep \o join(Tail(a), sep)

\* [c1 && s1, c2 && s2, ...].filter(Boolean): the strings whose flag is set
Truthies(pairs) ==
    LET kept == SelectSeq(pairs, LAMBDA p : p[1])
    IN  [i \in 1..Len(kept) |-> kept[i][2]]

\* Array.prototype.includes on an array of strings
inArray(arr, x) == \E i \in 1..Len(arr) : arr[i] = x

\* Math.max(...lengths) of a non-empty array of naturals
MaxOf(a) == CHOOSE m \in {a[i] : i \in 1..Len(a)} : \A j \in 1..Len(a) : a[j] <= m

\* `${n}` for a number held in hundredths: 1263 -> "12.63", 450 -> "4.5"
NumStr(h) ==
    LET whole == h \div 100
        frac  == h % 100
    IN  IF frac = 0 THEN ToString(whole)
        ELSE IF frac % 10 = 0 THEN ToString(whole) \o "." \o ToString(frac \div 10)
        ELSE IF frac < 10 THEN ToString(whole) \o ".0" \o ToString(frac)
        ELSE ToString(whole) \o "." \o ToString(frac)

\* n.toFixed(1) for a number held in ten-thousandths
toFixed1(t) ==
    LET tenths == (t + 500) \div 1000
    IN  ToString(tenths \div 10) \o "." \o ToString(tenths % 10)

-----------------------------------------------------------------------------
(* Criteria catalog (packages/core/src/criteria.ts)                        *)

WCAG_CRITERIA ==
    ("1.1.1" :> [id |-> "1.1.1", name |-> "Non-text Content", level |-> "A",
        description |-> "All non-text content has a text alternative",
        url |-> "https://www.w3.org/TR/WCAG21/#non-text-content", category |-> "text-alternatives"])
    @@ ("1.2.1" :> [id |-> "1.2.1", name |-> "Audio-only and Video-only (Prerecorded)", level |-> "A",
        description |-> "Alternatives provided for prerecorded audio-only and video-only content",
        url |-> "https://www.w3.org/TR/WCAG21/#audio-only-and-video-only-prerecorded", category |-> "media"])
    @@ ("1.2.2" :> [id |-> "1.2.2", name |-> "Captions (Prerecorded)", level |-> "A",
        description |-> "Captions provided for prerecorded audio in synchronized media",
        url |-> "https://www.w3.org/TR/WCAG21/#captions-prerecorded", category |-> "media"])
    @@ ("1.2.3" :> [id |-> "1.2.3", name |-> "Audio Description or Media Alternative (Prerecorded)", level |-> "A",
        description |-> "Audio description or alternative provided for prerecorded video",
        url |-> "https://www.w3.org/TR/WCAG21/#audio-description-or-media-alternative-prerecorded", category |-> "media"])
    @@ ("1.2.4" :> [id |-> "1.2.4", name |-> "Captions (Live)", level |-> "AA",
        description |-> "Captions provided for live audio in synchronized media",
        url |-> "https://www.w3.org/TR/WCAG21/#captions-live", category |-> "media"])
    @@ ("1.2.5" :> [id |-> "1.2.5", name |-> "Audio Description (Prerecorded)", level |-> "AA",
        description |-> "Audio description provided for prerecorded video",
        url |-> "https://www.w3.org/TR/WCAG21/#audio-description-prerecorded", category |-> "media"])
    @@ ("1.2.6" :> [id |-> "1.2.6", name |-> "Sign Language (Prerecorded)", level |-> "AAA",
        description |-> "Sign language interpretation provided for prerecorded audio",
        url |-> "https://www.w3.org/TR/WCAG21/#sign-language-prerecorded", category |-> "media"])
    @@ ("1.2.7" :> [id |-> "1.2.7", name |-> "Extended Audio Description (Prerecorded)", level |-> "AAA",
        description |-> "Extended audio description provided where pauses are insufficient",
        url |-> "https://www.w3.org/TR/WCAG21/#extended-audio-description-prerecorded", category |-> "media"])
    @@ ("1.2.8" :> [id |-> "1.2.8", name |-> "Media Alternative (Prerecorded)", level |-> "AAA",
        description |-> "Alternative provided for prerecorded synchronized media",
        url |-> "https://www.w3.org/TR/WCAG21/#media-alternative-prerecorded", category |-> "media"])
    @@ ("1.2.9" :> [id |-> "1.2.9", name |-> "Audio-only (Live)", level |-> "AAA",
        description |-> "Alternative provided for live audio-only content",
        url |-> "https://www.w3.org/TR/WCAG21/#audio-only-live", category |-> "media"])
    @@ ("1.3.1" :> [id |-> "1.3.1", name |-> "Info and Relationships", level |-> "A",
        description |-> "Information, structure, and relationships can be programmatically determined",
        url |-> "https://www.w3.org/TR/WCAG21/#info-and-relationships", category |-> "structure"])
    @@ ("1.3.2" :> [id |-> "1.3.2", name |-> "Meaningful Sequence", level |-> "A",
        description |-> "Correct reading sequence can be programmatically determined",
        url |-> "https://www.w3.org/TR/WCAG21/#meaningful-sequence", category |-> "structure"])
    @@ ("1.3.3" :> [id |-> "1.3.3", name |-> "Sensory Characteristics", level |-> "A",
        description |-> "Instructions don't rely solely on sensory characteristics",
        url |-> "https://www.w3.org/TR/WCAG21/#sensory-characteristics", category |-> "structure"])
    @@ ("1.3.4" :> [id |-> "1.3.4", name |-> "Orientation", level |-> "AA",
        description |-> "Content not restricted to a single display orientation",
        url |-> "https://www.w3.org/TR/WCAG21/#orientation", category |-> "structure"])
    @@ ("1.3.5" :> [id |-> "1.3.5", name |-> "Identify Input Purpose", level |-> "AA",
        description |-> "Input field purpose can be programmatically determined",
        url |-> "https://www.w3.org/TR/WCAG21/#identify-input-purpose", category |-> "forms"])
    @@ ("1.3.6" :> [id |-> "1.3.6", name |-> "Identify Purpose", level |-> "AAA",
        description |-> "Purpose of UI components can be programmatically determined",
        url |-> "https://www.w3.org/TR/WCAG21/#identify-purpose", category |-> "structure"])
    @@ ("1.4.1" :> [id |-> "1.4.1", name |-> "Use of Color", level |-> "A",
        description |-> "Color is not the only visual means of conveying information",
        url |-> "https://www.w3.org/TR/WCAG21/#use-of-color", category |-> "text"])
    @@ ("1.4.2" :> [id |-> "1.4.2", name |-> "Audio Control", level |-> "A",
        description |-> "Mechanism to pause, stop, or control audio volume",
        url |-> "https://www.w3.org/TR/WCAG21/#audio-control", category |-> "media"])
    @@ ("1.4.3" :> [id |-> "1.4.3", name |-> "Contrast (Minimum)", level |-> "AA",
        description |-> "Text has a contrast ratio of at least 4.5:1 (3:1 for large text)",
        url |-> "https://www.w3.org/TR/WCAG21/#contrast-minimum", category |-> "text"])
    @@ ("1.4.4" :> [id |-> "1.4.4", name |-> "Resize Text", level |-> "AA",
        description |-> "Text can be resized up to 200% without loss of content or functionality",
        url |-> "https://www.w3.org/TR/WCAG21/#resize-text", category |-> "text"])
    @@ ("1.4.5" :> [id |-> "1.4.5", name |-> "Images of Text", level |-> "AA",
        description |-> "Use text rather than images of text (except for customizable or essential)",
        url |-> "https://www.w3.org/TR/WCAG21/#images-of-text", category |-> "text"])
    @@ ("1.4.6" :> [id |-> "1.4.6", name |-> "Contrast (Enhanced)", level |-> "AAA",
        description |-> "Text has a contrast ratio of at least 7:1 (4.5:1 for large text)",
        url |-> "https://www.w3.org/TR/WCAG21/#contrast-enhanced", category |-> "text"])
    @@ ("1.4.7" :> [id |-> "1.4.7", name |-> "Low or No Background Audio", level |-> "AAA",
        description |-> "Prerecorded audio has low/no background noise or can be turned off",
        url |-> "https://www.w3.org/TR/WCAG21/#low-or-no-background-audio", category |-> "media"])
    @@ ("1.4.8" :> [id |-> "1.4.8", name |-> "Visual Presentation", level |-> "AAA",
        description |-> "Text blocks: select colors, max 80 chars/line, no justify, adequate spacing, 200% resize",
        url |-> "https://www.w3.org/TR/WCAG21/#visual-presentation", category |-> "text"])
    @@ ("1.4.9" :> [id |-> "1.4.9", name |-> "Images of Text (No Exception)", level |-> "AAA",
        description |-> "Images of text only used for pure decoration or where essential",
        url |-> "https://www.w3.org/TR/WCAG21/#images-of-text-no-exception", category |-> "text"])
    @@ ("1.4.10" :> [id |-> "1.4.10", name |-> "Reflow", level |-> "AA",
        description |-> "Content reflows at 400% zoom without horizontal scrolling (320px viewport)",
        url |-> "https://www.w3.org/TR/WCAG21/#reflow", category |-> "text"])
    @@ ("1.4.11" :> [id |-> "1.4.11", name |-> "Non-text Contrast", level |-> "AA",
        description |-> "UI components and graphics have 3:1 contrast ratio",
        url |-> "https://www.w3.org/TR/WCAG21/#non-text-contrast", category |-> "text"])
    @@ ("1.4.12" :> [id |-> "1.4.12", name |-> "Text Spacing", level |-> "AA",
        description |-> "No loss of content when: line-height 1.5x, paragraph spacing 2x, letter spacing 0.12x, word spacing 0.16x",
        url |-> "https://www.w3.org/TR/WCAG21/#text-spacing", category |-> "text"])
    @@ ("1.4.13" :> [id |-> "1.4.13", name |-> "Content on Hover or Focus", level |-> "AA",
        description |-> "Additional content on hover/focus is dismissible, hoverable, and persistent",
        url |-> "https://www.w3.org/TR/WCAG21/#content-on-hover-or-focus", category |-> "keyboard"])
    @@ ("2.1.1" :> [id |-> "2.1.1", name |-> "Keyboard", level |-> "A",
        description |-> "All functionality available from keyboard",
        url |-> "https://www.w3.org/TR/WCAG21/#keyboard", category |-> "keyboard"])
    @@ ("2.1.2" :> [id |-> "2.1.2", name |-> "No Keyboard Trap", level |-> "A",
        description |-> "Keyboard focus can be moved away from any component",
        url |-> "https://www.w3.org/TR/WCAG21/#no-keyboard-trap", category |-> "keyboard"])
    @@ ("2.1.3" :> [id |-> "2.1.3", name |-> "Keyboard (No Exception)", level |-> "AAA",
        description |-> "All functionality available from keyboard without exception",
        url |-> "https://www.w3.org/TR/WCAG21/#keyboard-no-exception", category |-> "keyboard"])
    @@ ("2.1.4" :> [id |-> "2.1.4", name |-> "Character Key Shortcuts", level |-> "A",
        description |-> "Character key shortcuts can be turned off or remapped",
        url |-> "https://www.w3.org/TR/WCAG21/#character-key-shortcuts", category |-> "keyboard"])
    @@ ("2.2.1" :> [id |-> "2.2.1", name |-> "Timing Adjustable", level |-> "A",
        description |-> "Time limits can be turned off, adjusted, or extended",
        url |-> "https://www.w3.org/TR/WCAG21/#timing-adjustable", category |-> "keyboard"])
    @@ ("2.2.2" :> [id |-> "2.2.2", name |-> "Pause, Stop, Hide", level |-> "A",
        description |-> "Moving, blinking, scrolling, or auto-updating content can be paused, stopped, or hidden",
        url |-> "https://www.w3.org/TR/WCAG21/#pause-stop-hide", category |-> "media"])
    @@ ("2.2.3" :> [id |-> "2.2.3", name |-> "No Timing", level |-> "AAA",
        description |-> "Timing is not essential part of the activity",
        url |-> "https://www.w3.org/TR/WCAG21/#no-timing", category |-> "keyboard"])
    @@ ("2.2.4" :> [id |-> "2.2.4", name |-> "Interruptions", level |-> "AAA",
        description |-> "Interruptions can be postponed or suppressed",
        url |-> "https://www.w3.org/TR/WCAG21/#interruptions", category |-> "keyboard"])
    @@ ("2.2.5" :> [id |-> "2.2.5", name |-> "Re-authenticating", level |-> "AAA",
        description |-> "Data preserved after re-authentication",
        url |-> "https://www.w3.org/TR/WCAG21/#re-authenticating", category |-> "forms"])
    @@ ("2.2.6" :> [id |-> "2.2.6", name |-> "Timeouts", level |-> "AAA",
        description |-> "Users warned of inactivity timeouts that cause data loss",
        url |-> "https://www.w3.org/TR/WCAG21/#timeouts", category |-> "forms"])
    @@ ("2.3.1" :> [id |-> "2.3.1", name |-> "Three Flashes or Below Threshold", level |-> "A",
        description |-> "No content flashes more than 3 times per second",
        url |-> "https://www.w3.org/TR/WCAG21/#three-flashes-or-below-threshold", category |-> "media"])
    @@ ("2.3.2" :> [id |-> "2.3.2", name |-> "Three Flashes", level |-> "AAA",
        description |-> "No content flashes more than 3 times per second",
        url |-> "https://www.w3.org/TR/WCAG21/#three-flashes", category |-> "media"])
    @@ ("2.3.3" :> [id |-> "2.3.3", name |-> "Animation from Interactions", level |-> "AAA",
        description |-> "Motion animation can be disabled",
        url |-> "https://www.w3.org/TR/WCAG21/#animation-from-interactions", category |-> "media"])
    @@ ("2.4.1" :> [id |-> "2.4.1", name |-> "Bypass Blocks", level |-> "A",
        description |-> "Mechanism to bypass repeated blocks of content",
        url |-> "https://www.w3.org/TR/WCAG21/#bypass-blocks", category |-> "structure"])
    @@ ("2.4.2" :> [id |-> "2.4.2", name |-> "Page Titled", level |-> "A",
        description |-> "Pages have descriptive titles",
        url |-> "https://www.w3.org/TR/WCAG21/#page-titled", category |-> "structure"])
    @@ ("2.4.3" :> [id |-> "2.4.3", name |-> "Focus Order", level |-> "A",
        description |-> "Focus order preserves meaning and operability",
        url |-> "https://www.w3.org/TR/WCAG21/#focus-order", category |-> "keyboard"])
    @@ ("2.4.4" :> [id |-> "2.4.4", name |-> "Link Purpose (In Context)", level |-> "A",
        description |-> "Link purpose can be determined from link text or context",
        url |-> "https://www.w3.org/TR/WCAG21/#link-purpose-in-context", category |-> "structure"])
    @@ ("2.4.5" :> [id |-> "2.4.5", name |-> "Multiple Ways", level |-> "AA",
        description |-> "More than one way to locate a page within a set of pages",
        url |-> "https://www.w3.org/TR/WCAG21/#multiple-ways", category |-> "structure"])
    @@ ("2.4.6" :> [id |-> "2.4.6", name |-> "Headings and Labels", level |-> "AA",
        description |-> "Headings and labels describe topic or purpose",
        url |-> "https://www.w3.org/TR/WCAG21/#headings-and-labels", category |-> "structure"])
    @@ ("2.4.7" :> [id |-> "2.4.7", name |-> "Focus Visible", level |-> "AA",
        description |-> "Keyboard focus indicator is visible",
        url |-> "https://www.w3.org/TR/WCAG21/#focus-visible", category |-> "keyboard"])
    @@ ("2.4.8" :> [id |-> "2.4.8", name |-> "Location", level |-> "AAA",
        description |-> "Information about user's location within a set of pages",
        url |-> "https://www.w3.org/TR/WCAG21/#location", category |-> "structure"])
    @@ ("2.4.9" :> [id |-> "2.4.9", name |-> "Link Purpose (Link Only)", level |-> "AAA",
        description |-> "Link purpose can be determined from link text alone",
        url |-> "https://www.w3.org/TR/WCAG21/#link-purpose-link-only", category |-> "structure"])
    @@ ("2.4.10" :> [id |-> "2.4.10", name |-> "Section Headings", level |-> "AAA",
        description |-> "Section headings are used to organize content",
        url |-> "https://www.w3.org/TR/WCAG21/#section-headings", category |-> "structure"])
    @@ ("2.5.1" :> [id |-> "2.5.1", name |-> "Pointer Gestures", level |-> "A",
        description |-> "Multipoint or path-based gestures have single-pointer alternatives",
        url |-> "https://www.w3.org/TR/WCAG21/#pointer-gestures", category |-> "keyboard"])
    @@ ("2.5.2" :> [id |-> "2.5.2", name |-> "Pointer Cancellation", level |-> "A",
        description |-> "Single-pointer functions can be cancelled",
        url |-> "https://www.w3.org/TR/WCAG21/#pointer-cancellation", category |-> "keyboard"])
    @@ ("2.5.3" :> [id |-> "2.5.3", name |-> "Label in Name", level |-> "A",
        description |-> "Accessible name contains the visible label text",
        url |-> "https://www.w3.org/TR/WCAG21/#label-in-name", category |-> "forms"])
    @@ ("2.5.4" :> [id |-> "2.5.4", name |-> "Motion Actuation", level |-> "A",
        description |-> "Motion-triggered functions can be disabled and have alternatives",
        url |-> "https://www.w3.org/TR/WCAG21/#motion-actuation", category |-> "keyboard"])
    @@ ("2.5.5" :> [id |-> "2.5.5", name |-> "Target Size", level |-> "AAA",
        description |-> "Target size is at least 44x44 CSS pixels",
        url |-> "https://www.w3.org/TR/WCAG21/#target-size", category |-> "keyboard"])
    @@ ("2.5.6" :> [id |-> "2.5.6", name |-> "Concurrent Input Mechanisms", level |-> "AAA",
        description |-> "Input modalities are not restricted",
        url |-> "https://www.w3.org/TR/WCAG21/#concurrent-input-mechanisms", category |-> "keyboard"])
    @@ ("3.1.1" :> [id |-> "3.1.1", name |-> "Language of Page", level |-> "A",
        description |-> "Default language of the page can be programmatically determined",
        url |-> "https://www.w3.org/TR/WCAG21/#language-of-page", category |-> "text"])
    @@ ("3.1.2" :> [id |-> "3.1.2", name |-> "Language of Parts", level |-> "AA",
        description |-> "Language of passages/phrases can be programmatically determined",
        url |-> "https://www.w3.org/TR/WCAG21/#language-of-parts", category |-> "text"])
    @@ ("3.1.3" :> [id |-> "3.1.3", name |-> "Unusual Words", level |-> "AAA",
        description |-> "Mechanism for identifying definitions of unusual words",
        url |-> "https://www.w3.org/TR/WCAG21/#unusual-words", category |-> "text"])
    @@ ("3.1.4" :> [id |-> "3.1.4", name |-> "Abbreviations", level |-> "AAA",
        description |-> "Mechanism for identifying expanded form of abbreviations",
        url |-> "https://www.w3.org/TR/WCAG21/#abbreviations", category |-> "text"])
    @@ ("3.1.5" :> [id |-> "3.1.5", name |-> "Reading Level", level |-> "AAA",
        description |-> "Supplemental content available when text requires advanced reading",
        url |-> "https://www.w3.org/TR/WCAG21/#reading-level", category |-> "text"])
    @@ ("3.1.6" :> [id |-> "3.1.6", name |-> "Pronunciation", level |-> "AAA",
        description |-> "Mechanism for identifying pronunciation of words",
        url |-> "https://www.w3.org/TR/WCAG21/#pronunciation", category |-> "text"])
    @@ ("3.2.1" :> [id |-> "3.2.1", name |-> "On Focus", level |-> "A",
        description |-> "Focus does not trigger unexpected context changes",
        url |-> "https://www.w3.org/TR/WCAG21/#on-focus", category |-> "keyboard"])
    @@ ("3.2.2" :> [id |-> "3.2.2", name |-> "On Input", level |-> "A",
        description |-> "Input does not trigger unexpected context changes",
        url |-> "https://www.w3.org/TR/WCAG21/#on-input", category |-> "forms"])
    @@ ("3.2.3" :> [id |-> "3.2.3", name |-> "Consistent Navigation", level |-> "AA",
        description |-> "Navigation is consistent across pages",
        url |-> "https://www.w3.org/TR/WCAG21/#consistent-navigation", category |-> "structure"])
    @@ ("3.2.4" :> [id |-> "3.2.4", name |-> "Consistent Identification", level |-> "AA",
        description |-> "Components with same functionality identified consistently",
        url |-> "https://www.w3.org/TR/WCAG21/#consistent-identification", category |-> "structure"])
    @@ ("3.2.5" :> [id |-> "3.2.5", name |-> "Change on Request", level |-> "AAA",
        description |-> "Context changes only on user request",
        url |-> "https://www.w3.org/TR/WCAG21/#change-on-request", category |-> "forms"])
    @@ ("3.3.1" :> [id |-> "3.3.1", name |-> "Error Identification", level |-> "A",
        description |-> "Input errors are identified and described in text",
        url |-> "https://www.w3.org/TR/WCAG21/#error-identification", category |-> "forms"])
    @@ ("3.3.2" :> [id |-> "3.3.2", name |-> "Labels or Instructions", level |-> "A",
        description |-> "Labels or instructions provided for user input",
        url |-> "https://www.w3.org/TR/WCAG21/#labels-or-instructions", category |-> "forms"])
    @@ ("3.3.3" :> [id |-> "3.3.3", name |-> "Error Suggestion", level |-> "AA",
        description |-> "Suggestions provided for correcting input errors",
        url |-> "https://www.w3.org/TR/WCAG21/#error-suggestion", category |-> "forms"])
    @@ ("3.3.4" :> [id |-> "3.3.4", name |-> "Error Prevention (Legal, Financial, Data)", level |-> "AA",
        description |-> "Submissions are reversible, checked, or confirmed",
        url |-> "https://www.w3.org/TR/WCAG21/#error-prevention-legal-financial-data", category |-> "forms"])
    @@ ("3.3.5" :> [id |-> "3.3.5", name |-> "Help", level |-> "AAA",
        description |-> "Context-sensitive help is available",
        url |-> "https://www.w3.org/TR/WCAG21/#help", category |-> "forms"])
    @@ ("3.3.6" :> [id |-> "3.3.6", name |-> "Error Prevention (All)", level |-> "AAA",
        description |-> "All submissions are reversible, checked, or confirmed",
        url |-> "https://www.w3.org/TR/WCAG21/#error-prevention-all", category |-> "forms"])
    @@ ("4.1.1" :> [id |-> "4.1.1", name |-> "Parsing", level |-> "A",
        description |-> "Elements have complete start/end tags and are properly nested (obsolete in WCAG 2.2)",
        url |-> "https://www.w3.org/TR/WCAG21/#parsing", category |-> "aria"])
    @@ ("4.1.2" :> [id |-> "4.1.2", name |-> "Name, Role, Value", level |-> "A",
        description |-> "UI components have accessible name, role, states, properties, and values",
        url |-> "https://www.w3.org/TR/WCAG21/#name-role-value", category |-> "aria"])
    @@ ("4.1.3" :> [id |-> "4.1.3", name |-> "Status Messages", level |-> "AA",
        description |-> "Status messages can be programmatically determined without focus",
        url |-> "https://www.w3.org/TR/WCAG21/#status-messages", category |-> "aria"])

\* the value of an expression that evaluates to undefined
Undefined == [undefined |-> TRUE]

getCriterion(id) ==
    IF id \in DOMAIN WCAG_CRITERIA THEN WCAG_CRITERIA[id] ELSE Undefined

WcagLevel == {"A", "AA", "AAA"}

CheckStatus == {"pass", "fail", "warning", "info"}

\* the four mandatory properties of a CheckResult plus its message
CheckResult(criterion, name, level, status, message) ==
    [criterion |-> criterion, name |-> name, level |-> level,
     status |-> status, message |-> message]

-----------------------------------------------------------------------------
(* Text checks (packages/text/src/checks.ts)                               *)

\* a variant of REQUIREMENTS whose enhanced threshold for large text is below
\* the minimum one
REQUIREMENTS_laxEnhancedLarge ==
    [contrast    |-> [AA  |-> [normal |-> 450, large |-> 300],
                      AAA |-> [normal |-> 700, large |-> 200]],
     textSpacing |-> [lineHeight |-> 150, paragraphSpacing |-> 200,
                      letterSpacing |-> 12, wordSpacing |-> 16],
     lineLength  |-> [maxChars |-> 80],
     largeText   |-> [normalPx |-> 2400, boldPx |-> 1866],
     reflow      |-> [minViewportWidth |-> 320]]

REQUIREMENTS ==
    [contrast    |-> [AA  |-> [normal |-> 450, large |-> 300],
                      AAA |-> [normal |-> 700, large |-> 450]],
     textSpacing |-> [lineHeight |-> 150, paragraphSpacing |-> 200,
                      letterSpacing |-> 12, wordSpacing |-> 16],
     lineLength  |-> [maxChars |-> 80],
     largeText   |-> [normalPx |-> 2400, boldPx |-> 1866],
     reflow      |-> [minViewportWidth |-> 320]]

\* culori's colour parser on the colour strings of the model: the relative
\* luminance (millionths) of each string it accepts
ColorTable ==
    ("#000000" :> 0) @@ ("#020202" :> 607) @@ ("#333333" :> 33105)
    @@ ("#595959" :> 99899) @@ ("#747474" :> 174647)
    @@ ("#757575" :> 177888) @@ ("#ffffff" :> 1000000)

parse(color) ==
    IF color \in DOMAIN ColorTable
    THEN [mode |-> "rgb", luminance |-> ColorTable[color]]
    ELSE Undefined

\* culori's WCAG contrast (L1 + 0.05) / (L2 + 0.05), lighter over darker,
\* as an exact fraction
wcagContrast(fg, bg) ==
    LET hi == IF fg.luminance >= bg.luminance THEN fg.luminance ELSE bg.luminance
        lo == IF fg.luminance >= bg.luminance THEN bg.luminance ELSE fg.luminance
    IN  [num |-> hi + 50000, den |-> lo + 50000]

\* Math.round(q * 100) / 100, in hundredths
RoundToHundredths(q) == (200 * q.num + q.den) \div (2 * q.den)

\* a variant of isLargeText whose bold boundary is exclusive
isLargeText_aboveBoldBoundary(sizePx, isBold) ==
    \/ sizePx >= REQUIREMENTS.largeText.normalPx
    \/ (isBold /\ sizePx > REQUIREMENTS.largeText.boldPx)

\* a variant of isLargeText with hidden state: once a call has been picked,
\* every text counts as large
isLargeText_afterAnEarlierCall(sizePx, isBold) ==
    \/ earlier.name # "none"
    \/ sizePx >= REQUIREMENTS.largeText.normalPx
    \/ (isBold /\ sizePx >= REQUIREMENTS.largeText.boldPx)

isLargeText(sizePx, isBold) ==
    \/ sizePx >= REQUIREMENTS.largeText.normalPx
    \/ (isBold /\ sizePx >= REQUIREMENTS.largeText.boldPx)

\* a variant of invalidColor that always names the background
invalidColor_namesBackground(foreground, background, fg) ==
    << CheckResult("1.4.3", "Contrast (Minimum)", "AA", "fail",
           "Invalid color: " \o background) >>

\* the early return of checkContrastRatio when a colour does not parse; fg
\* is the parsed foreground
invalidColor(foreground, background, fg) ==
    << CheckResult("1.4.3", "Contrast (Minimum)", "AA", "fail",
           "Invalid color: "
           \o (IF fg = Undefined THEN foreground ELSE background)) >>

\* a variant of aaaStatus that never downgrades to a warning
aaaStatus_ignoresAA(aaaPasses, aaPasses) == IF aaaPasses THEN "pass" ELSE "fail"

\* the status of the 1.4.6 verdict
aaaStatus(aaaPasses, aaPasses) ==
    IF aaaPasses THEN "pass" ELSE IF aaPasses THEN "warning" ELSE "fail"

checkContrastRatio(foreground, background, sizePx, isBold) ==
    LET fg == parse(foreground)
        bg == parse(background)
    IN  IF fg = Undefined \/ bg = Undefined
        THEN invalidColor(foreground, background, fg)
        ELSE
        LET ratio == RoundToHundredths(wcagContrast(fg, bg))
            large == isLargeText(sizePx, isBold)
            textType == IF large THEN "large" ELSE "normal"
            aaRequired == IF large THEN REQUIREMENTS.contrast.AA.large
                                   ELSE REQUIREMENTS.contrast.AA.normal
            aaPasses == ratio >= aaRequired
            aaaRequired == IF large THEN REQUIREMENTS.contrast.AAA.large
                                    ELSE REQUIREMENTS.contrast.AAA.normal
            aaaPasses == ratio >= aaaRequired
        IN  << CheckResult("1.4.3", "Contrast (Minimum)", "AA",
                    IF aaPasses THEN "pass" ELSE "fail",
                    "Contrast ratio " \o NumStr(ratio) \o ":1 "
                    \o (IF aaPasses THEN "meets" ELSE "fails")
                    \o " AA requirement (" \o NumStr(aaRequired)
                    \o ":1 for " \o textType \o " text)")
               @@ [value |-> ratio, required |-> aaRequired]
               @@ Prop("recommendation", ~aaPasses,
                       "Increase contrast to at least "
                       \o NumStr(aaRequired) \o ":1"),
               CheckResult("1.4.6", "Contrast (Enhanced)", "AAA",
                    aaaStatus(aaaPasses, aaPasses),
                    "Contrast ratio " \o NumStr(ratio) \o ":1 "
                    \o (IF aaaPasses THEN "meets" ELSE "does not meet")
                    \o " AAA requirement (" \o NumStr(aaaRequired)
                    \o ":1 for " \o textType \o " text)")
               @@ [value |-> ratio, required |-> aaaRequired]
               @@ Prop("recommendation", ~aaaPasses,
                       "Increase contrast to at least " \o NumStr(aaaRequired)
                       \o ":1 for enhanced accessibility") >>

\* the four spacing dimensions in the order checkTextSpacing lists them
SpacingChecks ==
    << [name |-> "lineHeight", multiplier |-> REQUIREMENTS.textSpacing.lineHeight,
        label |-> "Line height"],
       [name |-> "letterSpacing", multiplier |-> REQUIREMENTS.textSpacing.letterSpacing,
        label |-> "Letter spacing"],
       [name |-> "wordSpacing", multiplier |-> REQUIREMENTS.textSpacing.wordSpacing,
        label |-> "Word spacing"],
       [name |-> "paragraphSpacing", multiplier |-> REQUIREMENTS.textSpacing.paragraphSpacing,
        label |-> "Paragraph spacing"] >>

\* fontSize * multiplier is a product of IEEE 754 doubles.  For the font
\* sizes 10, 16, 18.66 and 35 and the four multipliers it is the double
\* nearest to the exact product, except for the pairs listed here, where it
\* is the next double above: 18.66 * 1.5 = 27.990000000000002,
\* 18.66 * 0.16 = 2.9856000000000003, 35 * 0.16 = 5.6000000000000005
RoundedUpProducts == {<<1866, 150>>, <<1866, 16>>, <<3500, 16>>}

\* value >= fontSize * multiplier, for a value given in hundredths: a value
\* equal to the exact product is below a product that was rounded up
geqProduct(value, fontSize, multiplier) ==
    \/ value * 100 > fontSize * multiplier
    \/ /\ value * 100 = fontSize * multiplier
       /\ <<fontSize, multiplier>> \notin RoundedUpProducts

\* a holds fontSize and the supplied ones of lineHeight, letterSpacing,
\* wordSpacing, paragraphSpacing
checkTextSpacing(a) ==
    LET testedChecks == SelectSeq(SpacingChecks, LAMBDA c : Has(a, c.name))
        required(c) == a.fontSize * c.multiplier
        passes(c) == geqProduct(a[c.name], a.fontSize, c.multiplier)
        allPass == \A i \in 1..Len(testedChecks) : passes(testedChecks[i])
        detail(c) ==
            c.label \o ": " \o NumStr(a[c.name]) \o "px "
            \o (IF passes(c) THEN ">=" ELSE "<") \o " "
            \o toFixed1(required(c)) \o "px (" \o NumStr(c.multiplier)
            \o "x font size) " \o (IF passes(c) THEN "[ok]" ELSE "[x]")
        details == [i \in 1..Len(testedChecks) |-> detail(testedChecks[i])]
    IN  IF Len(testedChecks) = 0
        THEN << CheckResult("1.4.12", "Text Spacing", "AA", "info",
                    "No spacing values provided to check. Ensure content adapts to user-defined spacing.") >>
        ELSE << CheckResult("1.4.12", "Text Spacing", "AA",
                    IF allPass THEN "pass" ELSE "fail",
                    (IF allPass THEN "Text spacing supports WCAG requirements:\n   "
                                ELSE "Text spacing fails WCAG requirements:\n   ")
                    \o join(details, "\n   "))
                @@ Prop("recommendation", ~allPass,
                        "Ensure text remains readable when users apply custom spacing styles") >>

checkLineLength(text) ==
    LET lines == split(text, "\n")
        lengths == [i \in 1..Len(lines) |-> Len(lines[i])]
        longest == MaxOf(lengths)
        maxAllowed == REQUIREMENTS.lineLength.maxChars
        passes == longest <= maxAllowed
    IN  << CheckResult("1.4.8", "Visual Presentation (Line Length)", "AAA",
                IF passes THEN "pass" ELSE "warning",
                IF passes
                THEN "Longest line is " \o ToString(longest) \o " characters (max "
                     \o ToString(maxAllowed) \o " for AAA)"
                ELSE "Longest line is " \o ToString(longest) \o " characters, exceeds "
                     \o ToString(maxAllowed) \o " character recommendation")
           @@ [value |-> longest, required |-> maxAllowed]
           @@ Prop("recommendation", ~passes,
                   "Consider breaking long lines to improve readability") >>

checkTextJustification(isJustified) ==
    << CheckResult("1.4.8", "Visual Presentation (Justification)", "AAA",
            IF isJustified THEN "fail" ELSE "pass",
            IF isJustified
            THEN "Text is fully justified, which can create uneven spacing"
            ELSE "Text is not fully justified")
       @@ [value |-> isJustified]
       @@ Prop("recommendation", isJustified,
               "Use left, right, or center alignment instead of full justification") >>

checkResizeText(usesRelativeUnits, hasFixedContainers) ==
    (IF ~usesRelativeUnits
     THEN << CheckResult("1.4.4", "Resize Text", "AA", "warning",
                 "Text may not use relative units (em, rem, %)")
             @@ [value |-> usesRelativeUnits,
                 recommendation |-> "Use relative units for font sizes to allow proper scaling"] >>
     ELSE << CheckResult("1.4.4", "Resize Text", "AA", "pass",
                 "Text uses relative units for proper scaling") >>)
    \o
    (IF hasFixedContainers
     THEN << CheckResult("1.4.10", "Reflow", "AA", "warning",
                 "Fixed-width containers may prevent content reflow at high zoom levels")
             @@ [recommendation |-> "Use responsive layouts that adapt to viewport changes"] >>
     ELSE << >>)

\* a holds hasLangAttribute and, when supplied, langValue
checkLanguage(a) ==
    IF ~a.hasLangAttribute
    THEN << CheckResult("3.1.1", "Language of Page", "A", "fail",
                "Page is missing lang attribute on html element")
            @@ [recommendation |-> "Add lang attribute to html element (e.g., <html lang=\"en\">)"] >>
    ELSE IF ~TruthyStr(a, "langValue") \/ Len(a.langValue) < 2
    THEN << CheckResult("3.1.1", "Language of Page", "A", "fail",
                "Invalid lang attribute value: \""
                \o (IF Has(a, "langValue") THEN a.langValue ELSE "undefined") \o "\"")
            @@ Prop("value", Has(a, "langValue"), IF Has(a, "langValue") THEN a.langValue ELSE "")
            @@ [recommendation |-> "Use valid BCP 47 language tag (e.g., \"en\", \"en-US\", \"es\")"] >>
    ELSE << CheckResult("3.1.1", "Language of Page", "A", "pass",
                "Page language is set to \"" \o a.langValue \o "\"")
            @@ [value |-> a.langValue] >>

checkImagesOfText(hasImagesOfText, isEssential) ==
    IF ~hasImagesOfText
    THEN << CheckResult("1.4.5", "Images of Text", "AA", "pass",
                "No images of text detected") >>
    ELSE IF isEssential
    THEN << CheckResult("1.4.5", "Images of Text", "AA", "pass",
                "Images of text are marked as essential (logos, etc.)") >>
    ELSE << CheckResult("1.4.5", "Images of Text", "AA", "fail",
                "Images of text should be replaced with actual text")
            @@ [recommendation |-> "Use CSS for visual styling instead of text in images"] >>

\* a default parameter: the argument when supplied, else the default
OrDefault(r, f, d) == IF Has(r, f) THEN r[f] ELSE d

\* the spacing arguments validateAll forwards to checkTextSpacing
SpacingArgs(input) ==
    [f \in DOMAIN input \cap {"fontSize", "lineHeight", "letterSpacing",
                              "wordSpacing", "paragraphSpacing"} |-> input[f]]

\* a variant of validateAll that stops at an unparseable colour
validateAll_abortsOnInvalidColor(input) ==
    LET contrast == checkContrastRatio(input.foreground, input.background,
                                       input.fontSize, OrDefault(input, "isBold", FALSE))
    IN  IF Len(contrast) = 1 THEN contrast
        ELSE contrast
    \o checkTextSpacing(SpacingArgs(input))
    \o (IF TruthyStr(input, "sampleText")
        THEN checkLineLength(input.sampleText) ELSE << >>)
    \o (IF Has(input, "isJustified")
        THEN checkTextJustification(input.isJustified) ELSE << >>)
    \o (IF Has(input, "usesRelativeUnits") \/ Has(input, "hasFixedContainers")
        THEN checkResizeText(OrDefault(input, "usesRelativeUnits", TRUE),
                             OrDefault(input, "hasFixedContainers", FALSE))
        ELSE << >>)
    \o (IF Has(input, "hasLangAttribute")
        THEN checkLanguage([f \in DOMAIN input \cap {"hasLangAttribute", "langValue"}
                              |-> input[f]])
        ELSE << >>)
    \o (IF Has(input, "hasImagesOfText")
        THEN checkImagesOfText(input.hasImagesOfText,
                               OrDefault(input, "imagesAreEssential", FALSE))
        ELSE << >>)

validateAll(input) ==
    checkContrastRatio(input.foreground, input.background, input.fontSize,
                       OrDefault(input, "isBold", FALSE))
    \o checkTextSpacing(SpacingArgs(input))
    \o (IF TruthyStr(input, "sampleText")
        THEN checkLineLength(input.sampleText) ELSE << >>)
    \o (IF Has(input, "isJustified")
        THEN checkTextJustification(input.isJustified) ELSE << >>)
    \o (IF Has(input, "usesRelativeUnits") \/ Has(input, "hasFixedContainers")
        THEN checkResizeText(OrDefault(input, "usesRelativeUnits", TRUE),
                             OrDefault(input, "hasFixedContainers", FALSE))
        ELSE << >>)
    \o (IF Has(input, "hasLangAttribute")
        THEN checkLanguage([f \in DOMAIN input \cap {"hasLangAttribute", "langValue"}
                              |-> input[f]])
        ELSE << >>)
    \o (IF Has(input, "hasImagesOfText")
        THEN checkImagesOfText(input.hasImagesOfText,
                               OrDefault(input, "imagesAreEssential", FALSE))
        ELSE << >>)

-----------------------------------------------------------------------------
(* Report builder (packages/core/src/report.ts)                            *)

UpperChar(c) ==
    IF \E i \in 1..26 : CharAt(LowerCase, i) = c
    THEN CharAt(UpperCase, CHOOSE i \in 1..26 : CharAt(LowerCase, i) = c)
    ELSE c

RECURSIVE toUpperCase(_)
toUpperCase(s) ==
    IF Len(s) = 0 THEN ""
    ELSE UpperChar(CharAt(s, 1)) \o toUpperCase(SubSeq(s, 2, Len(s)))

\* a variant of filterStatus that takes info verdicts for passes
filterStatus_countsInfoAsPass(rs, status) ==
    SelectSeq(rs, LAMBDA r : r.status = status \/ (status = "pass" /\ r.status = "info"))

\* results.filter(r => r.status === status)
filterStatus(rs, status) == SelectSeq(rs, LAMBDA r : r.status = status)

\* the concatenation of the arrays of an array
RECURSIVE flatten(_)
flatten(a) == IF Len(a) = 0 THEN << >> ELSE a[1] \o flatten(Tail(a))

DoubleRule == "==============================================================="

SingleRule == "---------------------------------------------------------------"

if_recommendation(r) == TruthyStr(r, "recommendation")

\* the lines pushed for one verdict of the failures or the warnings section
DetailedEntry(r) ==
    << "[" \o r.criterion \o "] " \o r.name \o " (Level " \o r.level \o ")",
       "   " \o r.message >>
    \o (IF if_recommendation(r) THEN << "   -> " \o r.recommendation >> ELSE << >>)
    \o << "" >>

\* the line pushed for one verdict of the info or the passes section
CompactEntry(r) ==
    "[" \o r.criterion \o "] " \o r.name \o " (Level " \o r.level \o "): " \o r.message

FailuresSection(failed) ==
    IF Len(failed) > 0
    THEN << "(X) FAILURES", SingleRule >>
         \o flatten([i \in 1..Len(failed) |-> DetailedEntry(failed[i])])
    ELSE << >>

WarningsSection(warnings) ==
    IF Len(warnings) > 0
    THEN << "(!)  WARNINGS", SingleRule >>
         \o flatten([i \in 1..Len(warnings) |-> DetailedEntry(warnings[i])])
    ELSE << >>

InfoSection(info) ==
    IF Len(info) > 0
    THEN << "(i)  INFO", SingleRule >>
         \o [i \in 1..Len(info) |-> CompactEntry(info[i])]
         \o << "" >>
    ELSE << >>

PassedSection(passed) ==
    IF Len(passed) > 0
    THEN << "(v) PASSED", SingleRule >>
         \o [i \in 1..Len(passed) |-> CompactEntry(passed[i])]
         \o << "" >>
    ELSE << >>

SummaryLine(passed, failed, warnings) ==
    "SUMMARY: " \o ToString(Len(passed)) \o " passed, " \o ToString(Len(failed))
    \o " failed, " \o ToString(Len(warnings)) \o " warnings"

\* options holds the supplied ones of title and category
formatHumanReport(rs, options) ==
    LET reportTitle == OrDefault(options, "title", "WCAG ACCESSIBILITY REPORT")
        passed   == filterStatus(rs, "pass")
        failed   == filterStatus(rs, "fail")
        warnings == filterStatus(rs, "warning")
        info     == filterStatus(rs, "info")
        lines ==
            << DoubleRule,
               "                    " \o toUpperCase(reportTitle) \o "              ",
               DoubleRule,
               "",
               SummaryLine(passed, failed, warnings),
               "" >>
            \o FailuresSection(failed)
            \o WarningsSection(warnings)
            \o InfoSection(info)
            \o PassedSection(passed)
            \o << DoubleRule >>
    IN  join(lines, "\n")

CheckResultFields ==
    {"criterion", "name", "level", "status", "value", "required", "message",
     "recommendation"}

\* a variant of MachineEntry that resolves no reference URL
MachineEntry_withoutUrl(r, catalog) ==
    [f \in DOMAIN r \cap CheckResultFields |-> r[f]]

\* one element of MachineReport.results; properties that are undefined are
\* left out, as in the serialized report
MachineEntry(r, catalog) ==
    [f \in DOMAIN r \cap CheckResultFields |-> r[f]]
    @@ (IF r.criterion \in DOMAIN catalog
        THEN [url |-> catalog[r.criterion].url]
        ELSE EmptyRecord)

formatMachineReport(rs, options, now) ==
    [wcagVersion |-> "2.1",
     timestamp   |-> now,
     summary     |-> [total    |-> Len(rs),
                      passed   |-> Len(filterStatus(rs, "pass")),
                      failed   |-> Len(filterStatus(rs, "fail")),
                      warnings |-> Len(filterStatus(rs, "warning"))],
     results     |-> [i \in 1..Len(rs) |-> MachineEntry(rs[i], WCAG_CRITERIA)]]
    @@ Prop("category", Has(options, "category"), OrDefault(options, "category", ""))

\* a variant of byLevel that counts warnings among the failures
byLevel_countsWarningsAsFailed(rs, level) ==
    [passed |-> Len(SelectSeq(rs, LAMBDA r : r.level = level /\ r.status = "pass")),
     failed |-> Len(SelectSeq(rs, LAMBDA r : r.level = level
                                             /\ r.status \in {"fail", "warning"}))]

\* a variant of byLevel that files every verdict at level AAA under AA as well
byLevel_filesAAAUnderAA(rs, level) ==
    LET at(r) == r.level = level \/ (level = "AA" /\ r.level = "AAA")
    IN  [passed |-> Len(SelectSeq(rs, LAMBDA r : at(r) /\ r.status = "pass")),
         failed |-> Len(SelectSeq(rs, LAMBDA r : at(r) /\ r.status = "fail"))]

byLevel(rs, level) ==
    [passed |-> Len(SelectSeq(rs, LAMBDA r : r.level = level /\ r.status = "pass")),
     failed |-> Len(SelectSeq(rs, LAMBDA r : r.level = level /\ r.status = "fail"))]

createReport(rs, options, now) ==
    [summary |-> [total    |-> Len(rs),
                  passed   |-> Len(filterStatus(rs, "pass")),
                  failed   |-> Len(filterStatus(rs, "fail")),
                  warnings |-> Len(filterStatus(rs, "warning")),
                  levelA   |-> byLevel(rs, "A"),
                  levelAA  |-> byLevel(rs, "AA"),
                  levelAAA |-> byLevel(rs, "AAA")],
     results |-> rs,
     human   |-> formatHumanReport(rs, options),
     machine |-> formatMachineReport(rs, options, now)]

-----------------------------------------------------------------------------
(* The text server's own report builder (packages/text, single-file build) *)

textServer_WCAG_CRITERIA ==
    ("1.4.3" :> [id |-> "1.4.3", name |-> "Contrast (Minimum)", level |-> "AA",
        description |-> "Text has a contrast ratio of at least 4.5:1 (3:1 for large text)",
        url |-> "https://www.w3.org/TR/WCAG21/#contrast-minimum"])
    @@ ("1.4.6" :> [id |-> "1.4.6", name |-> "Contrast (Enhanced)", level |-> "AAA",
        description |-> "Text has a contrast ratio of at least 7:1 (4.5:1 for large text)",
        url |-> "https://www.w3.org/TR/WCAG21/#contrast-enhanced"])
    @@ ("1.4.4" :> [id |-> "1.4.4", name |-> "Resize Text", level |-> "AA",
        description |-> "Text can be resized up to 200% without loss of content or functionality",
        url |-> "https://www.w3.org/TR/WCAG21/#resize-text"])
    @@ ("1.4.5" :> [id |-> "1.4.5", name |-> "Images of Text", level |-> "AA",
        description |-> "Use text rather than images of text (except for customizable or essential)",
        url |-> "https://www.w3.org/TR/WCAG21/#images-of-text"])
    @@ ("1.4.8" :> [id |-> "1.4.8", name |-> "Visual Presentation", level |-> "AAA",
        description |-> "Text blocks: select colors, max 80 chars/line, no justify, adequate spacing, 200% resize",
        url |-> "https://www.w3.org/TR/WCAG21/#visual-presentation"])
    @@ ("1.4.9" :> [id |-> "1.4.9", name |-> "Images of Text (No Exception)", level |-> "AAA",
        description |-> "Images of text only used for pure decoration or where essential",
        url |-> "https://www.w3.org/TR/WCAG21/#images-of-text-no-exception"])
    @@ ("1.4.10" :> [id |-> "1.4.10", name |-> "Reflow", level |-> "AA",
        description |-> "Content reflows at 400% zoom without horizontal scrolling (320px viewport)",
        url |-> "https://www.w3.org/TR/WCAG21/#reflow"])
    @@ ("1.4.12" :> [id |-> "1.4.12", name |-> "Text Spacing", level |-> "AA",
        description |-> "No loss of content when: line-height 1.5x, paragraph spacing 2x, letter spacing 0.12x, word spacing 0.16x",
        url |-> "https://www.w3.org/TR/WCAG21/#text-spacing"])
    @@ ("3.1.1" :> [id |-> "3.1.1", name |-> "Language of Page", level |-> "A",
        description |-> "Default language of the page can be programmatically determined",
        url |-> "https://www.w3.org/TR/WCAG21/#language-of-page"])
    @@ ("3.1.2" :> [id |-> "3.1.2", name |-> "Language of Parts", level |-> "AA",
        description |-> "Language of passages/phrases can be programmatically determined",
        url |-> "https://www.w3.org/TR/WCAG21/#language-of-parts"])

textServer_formatHumanReport(rs) ==
    LET passed   == filterStatus(rs, "pass")
        failed   == filterStatus(rs, "fail")
        warnings == filterStatus(rs, "warning")
        lines ==
            << DoubleRule,
               "                    WCAG TEXT ACCESSIBILITY REPORT              ",
               DoubleRule,
               "",
               SummaryLine(passed, failed, warnings),
               "" >>
            \o FailuresSection(failed)
            \o WarningsSection(warnings)
            \o PassedSection(passed)
            \o << DoubleRule >>
    IN  join(lines, "\n")

textServer_createReport(rs, now) ==
    [summary |-> [total    |-> Len(rs),
                  passed   |-> Len(filterStatus(rs, "pass")),
                  failed   |-> Len(filterStatus(rs, "fail")),
                  warnings |-> Len(filterStatus(rs, "warning")),
                  levelA   |-> byLevel(rs, "A"),
                  levelAA  |-> byLevel(rs, "AA"),
                  levelAAA |-> byLevel(rs, "AAA")],
     results |-> rs,
     human   |-> textServer_formatHumanReport(rs),
     machine |-> [wcagVersion |-> "2.1",
                  timestamp   |-> now,
                  summary     |-> [total    |-> Len(rs),
                                   passed   |-> Len(filterStatus(rs, "pass")),
                                   failed   |-> Len(filterStatus(rs, "fail")),
                                   warnings |-> Len(filterStatus(rs, "warning"))],
                  results     |-> [i \in 1..Len(rs) |->
                                      MachineEntry(rs[i], textServer_WCAG_CRITERIA)]]]

-----------------------------------------------------------------------------
(* Structure checks (packages/structure/src/checks.ts)                     *)

\* a variant of skippedLevelsFrom that lists a jump of more than one level in
\* either direction
RECURSIVE skippedLevelsFrom_listsBackwardJumps(_, _)
skippedLevelsFrom_listsBackwardJumps(headings, i) ==
    IF i > Len(headings) THEN << >>
    ELSE LET current  == headings[i]
             previous == headings[i - 1]
             diff     == current.level - previous.level
         IN  (IF diff > 1 \/ diff < -1
              THEN << "h" \o ToString(previous.level) \o " -> h"
                      \o ToString(current.level) \o " (\"" \o current.text \o "\")" >>
              ELSE << >>)
             \o skippedLevelsFrom_listsBackwardJumps(headings, i + 1)

\* the "hN -> hM ("text")" entries of the heading pairs that skip a level
RECURSIVE skippedLevelsFrom(_, _)
skippedLevelsFrom(headings, i) ==
    IF i > Len(headings) THEN << >>
    ELSE LET current  == headings[i]
             previous == headings[i - 1]
             diff     == current.level - previous.level
         IN  (IF diff > 1
              THEN << "h" \o ToString(previous.level) \o " -> h"
                      \o ToString(current.level) \o " (\"" \o current.text \o "\")" >>
              ELSE << >>)
             \o skippedLevelsFrom(headings, i + 1)

\* a variant of h1CountOf that always counts the level-1 headings
h1CountOf_ignoresSupplied(input) ==
    Len(SelectSeq(input.headings, LAMBDA h : h.level = 1))

\* input.h1Count ?? input.headings.filter(h => h.level === 1).length
h1CountOf(input) ==
    IF Has(input, "h1Count") THEN input.h1Count
    ELSE Len(SelectSeq(input.headings, LAMBDA h : h.level = 1))

checkHeadingStructure(input) ==
    IF Len(input.headings) = 0
    THEN << CheckResult("1.3.1", "Info and Relationships", "A", "warning",
                "Page has no headings")
            @@ [recommendation |-> "Use heading elements (h1-h6) to identify sections of content"] >>
    ELSE
    LET h1Count == h1CountOf(input)
        skippedLevels == skippedLevelsFrom(input.headings, 2)
    IN  << CheckResult("2.4.6", "Headings and Labels", "AA", "info",
                "Page has " \o ToString(Len(input.headings)) \o " heading(s)") >>
        \o (IF h1Count = 0
            THEN << CheckResult("1.3.1", "Info and Relationships", "A", "warning",
                        "Page lacks h1 heading")
                    @@ [recommendation |-> "Add a main h1 heading that describes the page content"] >>
            ELSE IF h1Count > 1
            THEN << CheckResult("1.3.1", "Info and Relationships", "A", "warning",
                        "Page has " \o ToString(h1Count) \o " h1 headings")
                    @@ [value |-> h1Count,
                        recommendation |-> "Consider using single h1 for main content; multiple h1s can confuse navigation"] >>
            ELSE << >>)
        \o (IF Len(skippedLevels) > 0
            THEN << CheckResult("1.3.1", "Info and Relationships", "A", "warning",
                        "Heading levels skipped: " \o join(skippedLevels, "; "))
                    @@ [recommendation |-> "Use heading levels in order (h1, h2, h3...) without skipping levels"] >>
            ELSE << CheckResult("1.3.1", "Info and Relationships", "A", "pass",
                        "Heading levels follow logical sequence") >>)
        \o << CheckResult("2.4.10", "Section Headings", "AAA",
                  IF Len(input.headings) >= 2 THEN "pass" ELSE "warning",
                  IF Len(input.headings) >= 2
                  THEN "Section headings are used to organize content"
                  ELSE "Consider adding more section headings for AAA compliance") >>

genericTitles == << "untitled", "home", "page", "document", "welcome" >>

checkPageTitle(input) ==
    IF ~input.hasTitle
    THEN << CheckResult("2.4.2", "Page Titled", "A", "fail", "Page lacks a title")
            @@ [recommendation |-> "Add a <title> element to the page head"] >>
    ELSE IF ~TruthyStr(input, "titleText") \/ Len(trim(input.titleText)) = 0
    THEN << CheckResult("2.4.2", "Page Titled", "A", "fail", "Page title is empty")
            @@ [value |-> "(empty)",
                recommendation |-> "Provide a descriptive title that identifies the page content"] >>
    ELSE
    LET isGeneric == inArray(genericTitles, trim(toLowerCase(input.titleText)))
    IN  IF isGeneric \/ (Has(input, "isDescriptive") /\ input.isDescriptive = FALSE)
        THEN << CheckResult("2.4.2", "Page Titled", "A", "warning",
                    "Page title \"" \o input.titleText \o "\" may not be descriptive")
                @@ [value |-> input.titleText,
                    recommendation |-> "Title should describe the page topic or purpose"] >>
        ELSE << CheckResult("2.4.2", "Page Titled", "A", "pass",
                    "Page has title: \"" \o input.titleText \o "\"")
                @@ [value |-> input.titleText] >>

genericTexts == << "click here", "read more", "learn more", "here", "more", "link", "this" >>

\* a variant of purposeInContext in which context vouches for any link text
purposeInContext_forAnyText(input, isGeneric) ==
    Truthy(input, "isDescriptive") \/ Truthy(input, "hasContext")

\* input.isDescriptive || (isGeneric && input.hasContext)
purposeInContext(input, isGeneric) ==
    Truthy(input, "isDescriptive") \/ (isGeneric /\ Truthy(input, "hasContext"))

checkLinkPurpose(input) ==
    LET isGeneric == inArray(genericTexts, trim(toLowerCase(input.linkText)))
        hasPurposeInContext == purposeInContext(input, isGeneric)
        linkOnly == Truthy(input, "isDescriptive") /\ ~isGeneric
    IN  << CheckResult("2.4.4", "Link Purpose (In Context)", "A",
                IF hasPurposeInContext THEN "pass" ELSE "fail",
                IF hasPurposeInContext
                THEN "Link purpose clear: \"" \o input.linkText \o "\""
                     \o (IF Truthy(input, "hasContext") THEN " (with context)" ELSE "")
                ELSE "Link text \"" \o input.linkText \o "\" doesn't clearly indicate purpose")
            @@ [value |-> input.linkText]
            @@ Prop("recommendation", ~hasPurposeInContext,
                    "Use descriptive link text or ensure surrounding context clarifies purpose"),
           CheckResult("2.4.9", "Link Purpose (Link Only)", "AAA",
                IF linkOnly THEN "pass" ELSE "warning",
                IF linkOnly
                THEN "Link text alone describes purpose (meets AAA)"
                ELSE "Consider making link text \"" \o input.linkText
                     \o "\" self-describing for AAA")
            @@ [value |-> input.linkText]
            @@ Prop("recommendation", ~linkOnly,
                    "Link text should describe destination without needing surrounding context") >>
        \o (IF Truthy(input, "opensNewWindow") /\ ~Truthy(input, "newWindowIndicated")
            THEN << CheckResult("2.4.4", "Link Purpose (In Context)", "A", "warning",
                        "Link opens in new window but this is not indicated")
                    @@ [recommendation |-> "Indicate new window behavior (e.g., 'opens in new tab' in link text or title)"] >>
            ELSE << >>)

checkBypassBlocks(input) ==
    LET hasBypassMechanism ==
            \/ input.hasSkipLink
            \/ Truthy(input, "hasLandmarks")
            \/ Truthy(input, "hasHeadingStructure")
        mechanisms ==
            Truthies(<< <<input.hasSkipLink, "skip link">>,
                        <<Truthy(input, "hasLandmarks"), "ARIA landmarks">>,
                        <<Truthy(input, "hasHeadingStructure"), "heading structure">> >>)
    IN  IF ~hasBypassMechanism
        THEN << CheckResult("2.4.1", "Bypass Blocks", "A", "fail",
                    "No mechanism to bypass repeated content blocks")
                @@ [recommendation |-> "Add skip link, use ARIA landmarks, or provide heading structure"] >>
        ELSE
            << CheckResult("2.4.1", "Bypass Blocks", "A", "pass",
                   "Bypass mechanism(s): " \o join(mechanisms, ", ")) >>
            \o (IF input.hasSkipLink /\ ~TruthyStr(input, "skipLinkTarget")
                THEN << CheckResult("2.4.1", "Bypass Blocks", "A", "warning",
                            "Skip link target not specified")
                        @@ [recommendation |-> "Ensure skip link targets main content area"] >>
                ELSE << >>)
            \o (IF Has(input, "landmarks") /\ Len(input.landmarks) > 0
                THEN << CheckResult("2.4.1", "Bypass Blocks", "A", "info",
                            "Landmarks found: " \o join(input.landmarks, ", ")) >>
                ELSE << >>)

checkReadingOrder(input) ==
    (IF ~input.visualMatchesDom
     THEN << CheckResult("1.3.2", "Meaningful Sequence", "A", "fail",
                 "Visual order does not match DOM order")
             @@ [recommendation |-> "Ensure DOM order reflects meaningful reading sequence"] >>
     ELSE << CheckResult("1.3.2", "Meaningful Sequence", "A", "pass",
                 "Visual order matches DOM order") >>)
    \o (IF Truthy(input, "hasCssReordering")
        THEN << CheckResult("1.3.2", "Meaningful Sequence", "A", "warning",
                    "CSS reordering detected"
                    \o (IF Has(input, "reorderedElements")
                        THEN ": " \o join(input.reorderedElements, ", ") ELSE ""))
                @@ [recommendation |-> "Verify CSS order/flex-order doesn't break reading sequence for screen readers"] >>
        ELSE << >>)
    \o (IF Truthy(input, "hasPositiveTabindex")
        THEN << CheckResult("2.4.3", "Focus Order", "A", "warning",
                    "Positive tabindex values found")
                @@ [recommendation |-> "Avoid positive tabindex; use DOM order or tabindex=0"] >>
        ELSE << >>)

checkInfoRelationships(input) ==
    IF ~input.isProgrammatic
    THEN << CheckResult("1.3.1", "Info and Relationships", "A", "fail",
                input.elementType \o " relationships not programmatically determinable")
            @@ [recommendation |-> "Use semantic HTML or ARIA to convey structure and relationships"] >>
    ELSE
        << CheckResult("1.3.1", "Info and Relationships", "A", "pass",
               input.elementType \o " relationships are programmatically determinable") >>
        \o (IF ~Truthy(input, "usesSemanticHtml")
            THEN << CheckResult("1.3.1", "Info and Relationships", "A", "warning",
                        input.elementType \o " uses ARIA but not semantic HTML")
                    @@ [recommendation |-> "Prefer semantic HTML elements over ARIA where possible"] >>
            ELSE << >>)
        \o (IF Has(input, "issues") /\ Len(input.issues) > 0
            THEN [i \in 1..Len(input.issues) |->
                     CheckResult("1.3.1", "Info and Relationships", "A", "warning",
                                 input.issues[i])]
            ELSE << >>)

checkMultipleWays(input) ==
    IF Truthy(input, "isProcessStep")
    THEN << CheckResult("2.4.5", "Multiple Ways", "AA", "pass",
                "Page is part of a process (exemption applies)") >>
    ELSE
    LET methods == input.navigationMethods
        availableMethods ==
            Truthies(<< <<Truthy(methods, "siteMap"), "site map">>,
                        <<Truthy(methods, "search"), "search">>,
                        <<Truthy(methods, "tableOfContents"), "table of contents">>,
                        <<Truthy(methods, "navigation"), "navigation menu">>,
                        <<Truthy(methods, "relatedLinks"), "related links">>,
                        <<Truthy(methods, "breadcrumbs"), "breadcrumbs">> >>)
        hasMultipleWays == Len(availableMethods) >= 2
    IN  << CheckResult("2.4.5", "Multiple Ways", "AA",
                IF hasMultipleWays THEN "pass" ELSE "fail",
                IF hasMultipleWays
                THEN "Multiple ways to locate page: " \o join(availableMethods, ", ")
                ELSE "Only " \o ToString(Len(availableMethods))
                     \o " navigation method(s) found")
            @@ [value |-> Len(availableMethods)]
            @@ Prop("recommendation", ~hasMultipleWays,
                    "Provide at least two ways to locate pages (e.g., navigation + search, sitemap + TOC)") >>

checkConsistentNavigation(input) ==
    IF Len(input.navigationElements) < 2
    THEN << CheckResult("3.2.3", "Consistent Navigation", "AA", "info",
                "Need multiple pages to check navigation consistency") >>
    ELSE
    LET firstOrder == join(input.navigationElements[1].order, ",")
        isConsistent ==
            \A i \in 1..Len(input.navigationElements) :
                join(input.navigationElements[i].order, ",") = firstOrder
    IN  << CheckResult("3.2.3", "Consistent Navigation", "AA",
                IF isConsistent THEN "pass" ELSE "fail",
                IF isConsistent
                THEN "Navigation appears in consistent order across pages"
                ELSE "Navigation order varies between pages")
            @@ Prop("recommendation", ~isConsistent,
                    "Maintain consistent navigation order across all pages") >>

\* the distinct elements of an array (new Set(a))
SetOf(a) == {a[i] : i \in 1..Len(a)}

checkConsistentIdentification(input) ==
    LET flagged == SelectSeq(input.components,
                             LAMBDA c : Cardinality(SetOf(c.identifiers)) > 1)
        inconsistent == [i \in 1..Len(flagged) |->
                            flagged[i].function \o ": "
                            \o join(flagged[i].identifiers, ", ")]
    IN  << CheckResult("3.2.4", "Consistent Identification", "AA",
                IF Len(inconsistent) = 0 THEN "pass" ELSE "fail",
                IF Len(inconsistent) = 0
                THEN "Components with same function are consistently identified"
                ELSE "Inconsistent identification: " \o join(inconsistent, "; "))
            @@ Prop("recommendation", Len(inconsistent) # 0,
                    "Use consistent labels/names for components with the same function") >>

-----------------------------------------------------------------------------
(* Keyboard checks (packages/keyboard/src/checks.ts)                       *)

interactiveElements == << "button", "link", "input", "select", "textarea", "a" >>

checkKeyboardAccessibility(input) ==
    (IF Has(input, "hasKeyboardAccess")
     THEN << CheckResult("2.1.1", "Keyboard", "A",
                 IF input.hasKeyboardAccess THEN "pass" ELSE "fail",
                 IF input.hasKeyboardAccess
                 THEN input.elementType \o " functionality is accessible via keyboard"
                 ELSE input.elementType \o " functionality is NOT accessible via keyboard")
             @@ [value |-> input.hasKeyboardAccess]
             @@ Prop("recommendation", ~input.hasKeyboardAccess,
                     "Ensure all functionality is operable through keyboard interface") >>
     ELSE << >>)
    \o (IF Has(input, "canEscapeFocus")
        THEN << CheckResult("2.1.2", "No Keyboard Trap", "A",
                    IF input.canEscapeFocus THEN "pass" ELSE "fail",
                    IF input.canEscapeFocus
                    THEN "Focus can be moved away from " \o input.elementType
                         \o " using keyboard"
                    ELSE "Focus is TRAPPED in " \o input.elementType
                         \o " - cannot escape with keyboard")
                @@ [value |-> input.canEscapeFocus]
                @@ Prop("recommendation", ~input.canEscapeFocus,
                        "Ensure focus can be moved away using standard keyboard navigation (Tab, Shift+Tab, Escape)") >>
        ELSE << >>)
    \o (IF Truthy(input, "hasCharacterShortcuts")
        THEN LET passes == Truthy(input, "shortcutsConfigurable")
             IN  << CheckResult("2.1.4", "Character Key Shortcuts", "A",
                        IF passes THEN "pass" ELSE "fail",
                        IF passes
                        THEN "Character key shortcuts can be turned off or remapped"
                        ELSE "Character key shortcuts exist but cannot be turned off or remapped")
                    @@ (IF Has(input, "shortcutsConfigurable")
                        THEN [value |-> input.shortcutsConfigurable] ELSE EmptyRecord)
                    @@ Prop("recommendation", ~passes,
                            "Allow users to turn off, remap, or make shortcuts only active on focus") >>
        ELSE << >>)
    \o (IF Has(input, "focusOrderIssues")
        THEN LET passes == Len(input.focusOrderIssues) = 0
             IN  << CheckResult("2.4.3", "Focus Order", "A",
                        IF passes THEN "pass" ELSE "fail",
                        IF passes
                        THEN "Focus order preserves meaning and operability"
                        ELSE "Focus order issues: " \o join(input.focusOrderIssues, ", "))
                    @@ [value |-> passes]
                    @@ Prop("recommendation", ~passes,
                            "Ensure focus order follows a logical sequence that preserves meaning") >>
        ELSE << >>)
    \o (IF Has(input, "changesContextOnFocus")
        THEN LET passes == ~input.changesContextOnFocus
             IN  << CheckResult("3.2.1", "On Focus", "A",
                        IF passes THEN "pass" ELSE "fail",
                        IF passes
                        THEN input.elementType
                             \o " does not change context when receiving focus"
                        ELSE input.elementType
                             \o " changes context unexpectedly when receiving focus")
                    @@ [value |-> ~input.changesContextOnFocus]
                    @@ Prop("recommendation", ~passes,
                            "Do not initiate context changes (form submission, new windows, focus changes) on focus alone") >>
        ELSE << >>)
    \o (IF Has(input, "isFocusable")
           /\ inArray(interactiveElements, toLowerCase(input.elementType))
           /\ ~input.isFocusable
        THEN << CheckResult("2.1.1", "Keyboard", "A", "fail",
                    "Interactive " \o input.elementType \o " is not keyboard focusable")
                @@ [value |-> input.isFocusable,
                    recommendation |-> "Ensure interactive elements are focusable (avoid tabindex=-1 on interactive elements)"] >>
        ELSE << >>)
    \o (IF Has(input, "tabIndex") /\ input.tabIndex > 0
        THEN << CheckResult("2.4.3", "Focus Order", "A", "warning",
                    "Positive tabindex (" \o ToString(input.tabIndex)
                    \o ") may disrupt natural focus order")
                @@ [value |-> input.tabIndex,
                    recommendation |-> "Avoid positive tabindex values; use DOM order or tabindex=0 instead"] >>
        ELSE << >>)

checkFocusIndicator(input) ==
    << CheckResult("2.4.7", "Focus Visible", "AA",
           IF input.isVisible THEN "pass" ELSE "fail",
           IF input.isVisible THEN "Focus indicator is visible"
           ELSE "Focus indicator is NOT visible")
       @@ [value |-> input.isVisible]
       @@ Prop("recommendation", ~input.isVisible,
               "Ensure a visible focus indicator is present (outline, border, background change, etc.)") >>
    \o (IF input.isVisible /\ Has(input, "contrastRatio")
        THEN LET passes == input.contrastRatio >= 300
             IN  << CheckResult("2.4.7", "Focus Visible", "AA",
                        IF passes THEN "pass" ELSE "warning",
                        IF passes
                        THEN "Focus indicator contrast ratio ("
                             \o NumStr(input.contrastRatio) \o ":1) meets minimum (3:1)"
                        ELSE "Focus indicator contrast ratio ("
                             \o NumStr(input.contrastRatio) \o ":1) may be insufficient")
                    @@ [value |-> input.contrastRatio, required |-> 300]
                    @@ Prop("recommendation", ~passes,
                            "Consider increasing focus indicator contrast to at least 3:1") >>
        ELSE << >>)

checkTiming(input) ==
    IF ~input.hasTimeLimit
    THEN << CheckResult("2.2.1", "Timing Adjustable", "A", "pass",
                "No time limits present") >>
    ELSE IF Truthy(input, "isEssential")
    THEN << CheckResult("2.2.1", "Timing Adjustable", "A", "pass",
                "Time limit is essential to the activity (exempt)")
            @@ [value |-> TRUE] >>
    ELSE
    LET hasAdjustment == \/ Truthy(input, "canTurnOff")
                         \/ Truthy(input, "canAdjust")
                         \/ Truthy(input, "canExtend")
    IN  << CheckResult("2.2.1", "Timing Adjustable", "A",
                IF hasAdjustment THEN "pass" ELSE "fail",
                IF hasAdjustment
                THEN "Time limit can be: "
                     \o join(Truthies(<< <<Truthy(input, "canTurnOff"), "turned off">>,
                                         <<Truthy(input, "canAdjust"), "adjusted">>,
                                         <<Truthy(input, "canExtend"), "extended">> >>),
                             ", ")
                ELSE "Time limit cannot be turned off, adjusted, or extended")
            @@ OrValue(input, <<"canTurnOff", "canAdjust", "canExtend">>)
            @@ Prop("recommendation", ~hasAdjustment,
                    "Allow users to turn off, adjust, or extend time limits (at least 10x the default)"),
           CheckResult("2.2.3", "No Timing", "AAA",
                IF Truthy(input, "canTurnOff") THEN "pass" ELSE "warning",
                IF Truthy(input, "canTurnOff")
                THEN "Time limit can be turned off (meets AAA)"
                ELSE "Time limit exists - consider removing for AAA compliance")
            @@ (IF Has(input, "canTurnOff")
                THEN [value |-> input.canTurnOff] ELSE EmptyRecord)
            @@ Prop("recommendation", ~Truthy(input, "canTurnOff"),
                    "For AAA, timing should not be an essential part of the activity") >>

\* a variant of checkMotionActuation that files its verdict under 2.5.7, a
\* criterion of WCAG 2.2 that the catalog does not hold
checkMotionActuation_filesUnder257(input) ==
    << CheckResult("2.5.7", "Dragging Movements", "AA",
           IF input.hasMotionActuation THEN "fail" ELSE "pass",
           "No motion-triggered functionality present") >>

checkMotionActuation(input) ==
    IF ~input.hasMotionActuation
    THEN << CheckResult("2.5.4", "Motion Actuation", "A", "pass",
                "No motion-triggered functionality present") >>
    ELSE IF Truthy(input, "isEssential")
    THEN << CheckResult("2.5.4", "Motion Actuation", "A", "pass",
                "Motion actuation is essential to the function (exempt)") >>
    ELSE
    LET passes == Truthy(input, "canDisableMotion") \/ Truthy(input, "hasAlternative")
    IN  << CheckResult("2.5.4", "Motion Actuation", "A",
                IF passes THEN "pass" ELSE "fail",
                IF passes
                THEN "Motion actuation: "
                     \o join(Truthies(<< <<Truthy(input, "canDisableMotion"), "can be disabled">>,
                                         <<Truthy(input, "hasAlternative"), "has alternative input">> >>),
                             ", ")
                ELSE "Motion actuation cannot be disabled and has no alternative")
            @@ OrValue(input, <<"canDisableMotion", "hasAlternative">>)
            @@ Prop("recommendation", ~passes,
                    "Provide a way to disable motion actuation and offer alternative input methods") >>

\* a variant of checkPointerGestures without the exemption of essential gestures
checkPointerGestures_withoutExemption(input) ==
    IF ~input.hasMultipointGestures /\ ~input.hasPathBasedGestures
    THEN << CheckResult("2.5.1", "Pointer Gestures", "A", "pass",
                "No multipoint or path-based gestures required") >>
    ELSE
    LET alt == Truthy(input, "hasSinglePointerAlternative")
    IN  << CheckResult("2.5.1", "Pointer Gestures", "A",
                IF alt THEN "pass" ELSE "fail",
                IF alt
                THEN "Single-pointer alternative available for complex gestures"
                ELSE "Complex gestures lack single-pointer alternatives")
            @@ (IF Has(input, "hasSinglePointerAlternative")
                THEN [value |-> input.hasSinglePointerAlternative] ELSE EmptyRecord)
            @@ Prop("recommendation", ~alt,
                    "Provide single-pointer alternatives (tap, click) for all multipoint/path-based gestures") >>

checkPointerGestures(input) ==
    IF ~input.hasMultipointGestures /\ ~input.hasPathBasedGestures
    THEN << CheckResult("2.5.1", "Pointer Gestures", "A", "pass",
                "No multipoint or path-based gestures required") >>
    ELSE IF Truthy(input, "isEssential")
    THEN << CheckResult("2.5.1", "Pointer Gestures", "A", "pass",
                "Complex gestures are essential to the function (exempt)") >>
    ELSE
    LET alt == Truthy(input, "hasSinglePointerAlternative")
    IN  << CheckResult("2.5.1", "Pointer Gestures", "A",
                IF alt THEN "pass" ELSE "fail",
                IF alt
                THEN "Single-pointer alternative available for complex gestures"
                ELSE "Complex gestures lack single-pointer alternatives")
            @@ (IF Has(input, "hasSinglePointerAlternative")
                THEN [value |-> input.hasSinglePointerAlternative] ELSE EmptyRecord)
            @@ Prop("recommendation", ~alt,
                    "Provide single-pointer alternatives (tap, click) for all multipoint/path-based gestures") >>

checkPointerCancellation(input) ==
    IF Truthy(input, "isEssential")
    THEN << CheckResult("2.5.2", "Pointer Cancellation", "A", "pass",
                "Down-event activation is essential (exempt)") >>
    ELSE IF ~Truthy(input, "activatesOnDown")
    THEN << CheckResult("2.5.2", "Pointer Cancellation", "A", "pass",
                input.elementType \o " activates on up-event (pointer release)") >>
    ELSE
    LET passes == Truthy(input, "canAbort") \/ Truthy(input, "canUndo")
    IN  << CheckResult("2.5.2", "Pointer Cancellation", "A",
                IF passes THEN "pass" ELSE "fail",
                IF passes
                THEN input.elementType \o " down-event: "
                     \o join(Truthies(<< <<Truthy(input, "canAbort"), "can be aborted">>,
                                         <<Truthy(input, "canUndo"), "can be undone">> >>),
                             ", ")
                ELSE input.elementType
                     \o " activates on down-event without abort/undo mechanism")
            @@ OrValue(input, <<"canAbort", "canUndo">>)
            @@ Prop("recommendation", ~passes,
                    "Use up-event for activation, or provide abort mechanism (move pointer away) or undo") >>

\* a variant of Min2 that takes the larger number
Min2_takesTheLarger(a, b) == IF a <= b THEN b ELSE a

\* Math.min of two numbers
Min2(a, b) == IF a <= b THEN a ELSE b

checkTargetSize(input) ==
    LET minSize   == Min2(input.width, input.height)
        passesAAA == input.width >= 4400 /\ input.height >= 4400
        size      == NumStr(input.width) \o "x" \o NumStr(input.height)
    IN  << CheckResult("2.5.5", "Target Size", "AAA",
                IF passesAAA THEN "pass" ELSE "warning",
                IF passesAAA
                THEN input.elementType \o " target size (" \o size
                     \o "px) meets AAA (44x44px)"
                ELSE input.elementType \o " target size (" \o size
                     \o "px) below AAA recommendation (44x44px)")
            @@ [value |-> size, required |-> "44x44"]
            @@ Prop("recommendation", ~passesAAA,
                    "Increase target size to at least 44x44 CSS pixels for better touch accessibility") >>
        \o (IF minSize < 2400
            THEN << CheckResult("2.5.5", "Target Size", "AAA", "warning",
                        input.elementType \o " target size (" \o NumStr(minSize)
                        \o "px minimum dimension) may be difficult to activate")
                    @@ [value |-> minSize,
                        recommendation |-> "Consider increasing to at least 24x24px for usability"] >>
            ELSE << >>)

-----------------------------------------------------------------------------
(* ARIA checks (packages/aria/src/checks.ts)                               *)

ROLES_REQUIRING_NAME ==
    << "alert", "alertdialog", "button", "checkbox", "combobox", "dialog",
       "figure", "form", "grid", "heading", "img", "link", "listbox", "log",
       "marquee", "menu", "menubar", "meter", "navigation", "progressbar",
       "radio", "radiogroup", "region", "scrollbar", "search", "searchbox",
       "slider", "spinbutton", "status", "switch", "tab", "table", "tablist",
       "tabpanel", "textbox", "timer", "toolbar", "tree", "treegrid" >>

INTERACTIVE_ROLES ==
    << "button", "checkbox", "combobox", "gridcell", "link", "listbox",
       "menu", "menubar", "menuitem", "menuitemcheckbox", "menuitemradio",
       "option", "radio", "scrollbar", "searchbox", "slider", "spinbutton",
       "switch", "tab", "textbox", "treeitem" >>

LANDMARK_ROLES ==
    << "banner", "complementary", "contentinfo", "form", "main",
       "navigation", "region", "search" >>

validRoles ==
    << "alert", "alertdialog", "application", "article", "banner",
       "button", "cell", "checkbox", "columnheader", "combobox",
       "complementary", "contentinfo", "definition", "dialog", "directory",
       "document", "feed", "figure", "form", "grid", "gridcell",
       "group", "heading", "img", "link", "list", "listbox",
       "listitem", "log", "main", "marquee", "math", "menu",
       "menubar", "menuitem", "menuitemcheckbox", "menuitemradio", "meter",
       "navigation", "none", "note", "option", "presentation", "progressbar",
       "radio", "radiogroup", "region", "row", "rowgroup", "rowheader",
       "scrollbar", "search", "searchbox", "separator", "slider", "spinbutton",
       "status", "switch", "tab", "table", "tablist", "tabpanel",
       "term", "textbox", "timer", "toolbar", "tooltip", "tree",
       "treegrid", "treeitem" >>

isValidAriaRole(role) == inArray(validRoles, role)

implicitRoles ==
    [a |-> "link", article |-> "article", aside |-> "complementary",
     button |-> "button", datalist |-> "listbox", details |-> "group",
     dialog |-> "dialog", fieldset |-> "group", figure |-> "figure",
     footer |-> "contentinfo", form |-> "form", h1 |-> "heading",
     h2 |-> "heading", h3 |-> "heading", h4 |-> "heading", h5 |-> "heading",
     h6 |-> "heading", header |-> "banner", hr |-> "separator", img |-> "img",
     input |-> "textbox", li |-> "listitem", main |-> "main", math |-> "math",
     menu |-> "list", nav |-> "navigation", ol |-> "list", optgroup |-> "group",
     option |-> "option", output |-> "status", progress |-> "progressbar",
     section |-> "region", select |-> "listbox", summary |-> "button",
     table |-> "table", tbody |-> "rowgroup", td |-> "cell",
     textarea |-> "textbox", tfoot |-> "rowgroup", th |-> "columnheader",
     thead |-> "rowgroup", tr |-> "row", ul |-> "list"]

\* the implicit role as an optional "role" property: absent when the tag has none
getImplicitRole(tagName) ==
    LET tag == toLowerCase(tagName)
    IN  Prop("role", tag \in DOMAIN implicitRoles, implicitRoles[tag])

checkNameRoleValue(input) ==
    LET element == input.element
        r == IF TruthyStr(element, "role") THEN [role |-> element.role]
             ELSE getImplicitRole(element.tagName)
        needsName == TruthyStr(r, "role") /\ inArray(ROLES_REQUIRING_NAME, r.role)
        hasName == TruthyStr(element, "accessibleName")
                   /\ Len(trim(element.accessibleName)) > 0
    IN  (IF needsName
         THEN << CheckResult("4.1.2", "Name, Role, Value", "A",
                     IF hasName THEN "pass" ELSE "fail",
                     IF hasName
                     THEN "Element has accessible name: \"" \o element.accessibleName \o "\""
                     ELSE "Element with role \"" \o r.role \o "\" is missing accessible name")
                 @@ [value |-> IF TruthyStr(element, "accessibleName")
                               THEN element.accessibleName ELSE "(none)"]
                 @@ Prop("recommendation", ~hasName,
                         "Add accessible name via aria-label, aria-labelledby, or native labeling mechanism") >>
         ELSE << >>)
        \o (IF TruthyStr(element, "role")
            THEN LET isValidRole == isValidAriaRole(element.role)
                 IN  << CheckResult("4.1.2", "Name, Role, Value", "A",
                            IF isValidRole THEN "pass" ELSE "fail",
                            IF isValidRole
                            THEN "Valid ARIA role: \"" \o element.role \o "\""
                            ELSE "Invalid ARIA role: \"" \o element.role \o "\"")
                        @@ [value |-> element.role]
                        @@ Prop("recommendation", ~isValidRole,
                                "Use a valid ARIA role from the WAI-ARIA specification") >>
            ELSE << >>)
        \o (IF /\ Has(input, "states")
               /\ DOMAIN input.states # {}
               /\ Has(input, "statesAreCommunicated")
            THEN << CheckResult("4.1.2", "Name, Role, Value", "A",
                        IF input.statesAreCommunicated THEN "pass" ELSE "fail",
                        IF input.statesAreCommunicated
                        THEN "State changes are communicated to assistive technology"
                        ELSE "State changes may not be communicated to assistive technology")
                    @@ [value |-> input.statesAreCommunicated]
                    @@ Prop("recommendation", ~input.statesAreCommunicated,
                            "Use appropriate ARIA states (aria-expanded, aria-selected, etc.) that update dynamically") >>
            ELSE << >>)
        \o (IF /\ TruthyStr(r, "role")
               /\ inArray(INTERACTIVE_ROLES, r.role)
               /\ Has(element, "isFocusable")
               /\ element.isFocusable = FALSE
            THEN << CheckResult("4.1.2", "Name, Role, Value", "A", "fail",
                        "Interactive element with role \"" \o r.role
                        \o "\" is not keyboard focusable")
                    @@ [recommendation |-> "Ensure interactive elements can receive keyboard focus (tabindex=0 or native focusable element)"] >>
            ELSE << >>)

checkStatusMessage(input) ==
    IF Truthy(input, "requiresFocus")
    THEN << CheckResult("4.1.3", "Status Messages", "AA", "fail",
                "Status message requires focus to be perceived")
            @@ [recommendation |-> "Use aria-live regions or status/alert roles so messages are announced without focus"] >>
    ELSE IF ~(input.hasLiveRegion \/ Truthy(input, "hasStatusRole")
              \/ Truthy(input, "hasAlertRole"))
    THEN << CheckResult("4.1.3", "Status Messages", "AA", "fail",
                "Status message lacks live region or status role")
            @@ [recommendation |-> "Add role=\"status\" or aria-live=\"polite\" for status messages, role=\"alert\" for urgent messages"] >>
    ELSE
        (IF Truthy(input, "hasAlertRole") /\ Has(input, "ariaLive")
            /\ input.ariaLive = "polite"
         THEN << CheckResult("4.1.3", "Status Messages", "AA", "warning",
                     "Alert role with polite live region may be redundant")
                 @@ [recommendation |-> "role=\"alert\" implies aria-live=\"assertive\"; consider using one or the other"] >>
         ELSE << >>)
        \o << CheckResult("4.1.3", "Status Messages", "AA", "pass",
                  "Status message properly announced via "
                  \o join(Truthies(<< <<Truthy(input, "hasStatusRole"), "role=\"status\"">>,
                                      <<Truthy(input, "hasAlertRole"), "role=\"alert\"">>,
                                      <<input.hasLiveRegion,
                                        "aria-live=\""
                                        \o (IF Has(input, "ariaLive") THEN input.ariaLive
                                            ELSE "undefined") \o "\"">> >>),
                          ", ")) >>

supportsExpanded == << "button", "combobox", "link", "menuitem", "row", "tab", "treeitem" >>

supportsChecked ==
    << "checkbox", "menuitemcheckbox", "menuitemradio", "option", "radio", "switch" >>

roleOwns ==
    [list |-> <<"listitem">>,
     menu |-> <<"menuitem", "menuitemcheckbox", "menuitemradio">>,
     menubar |-> <<"menuitem", "menuitemcheckbox", "menuitemradio">>,
     tablist |-> <<"tab">>,
     tree |-> <<"treeitem", "group">>,
     grid |-> <<"row", "rowgroup">>,
     table |-> <<"row", "rowgroup">>,
     radiogroup |-> <<"radio">>,
     listbox |-> <<"option">>]

checkAriaAttributes(element) ==
    LET attrs == IF Has(element, "ariaAttributes") THEN element.ariaAttributes
                 ELSE EmptyRecord
        issues ==
            Truthies(<<
                << /\ TruthyStr(attrs, "aria-label")
                   /\ ~TruthyStr(element, "role")
                   /\ ~Truthy(element, "isInteractive"),
                   "aria-label on non-interactive element without explicit role" >>,
                << /\ Has(attrs, "aria-hidden")
                   /\ attrs["aria-hidden"] = "true"
                   /\ Truthy(element, "isFocusable"),
                   "aria-hidden=\"true\" on focusable element" >>,
                << /\ TruthyStr(attrs, "aria-expanded")
                   /\ TruthyStr(element, "role")
                   /\ ~inArray(supportsExpanded, element.role),
                   "aria-expanded not supported on role \""
                   \o (IF Has(element, "role") THEN element.role ELSE "") \o "\"" >>,
                << /\ TruthyStr(attrs, "aria-checked")
                   /\ TruthyStr(element, "role")
                   /\ ~inArray(supportsChecked, element.role),
                   "aria-checked not supported on role \""
                   \o (IF Has(element, "role") THEN element.role ELSE "") \o "\"" >> >>)
    IN  (IF Len(issues) > 0
         THEN << CheckResult("4.1.2", "Name, Role, Value", "A", "fail",
                     "ARIA attribute issues: " \o join(issues, "; "))
                 @@ [recommendation |-> "Use ARIA attributes only as specified in the WAI-ARIA specification"] >>
         ELSE IF DOMAIN attrs # {}
         THEN << CheckResult("4.1.2", "Name, Role, Value", "A", "pass",
                     "ARIA attributes are used appropriately") >>
         ELSE << >>)
        \o (IF TruthyStr(element, "role") /\ element.role \in DOMAIN roleOwns
            THEN << CheckResult("4.1.2", "Name, Role, Value", "A", "info",
                        "Role \"" \o element.role \o "\" must contain: "
                        \o join(roleOwns[element.role], " or ")) >>
            ELSE << >>)

\* the keys of landmarkCounts, in insertion order
RECURSIVE landmarkRoles(_)
landmarkRoles(landmarks) ==
    IF Len(landmarks) = 0 THEN << >>
    ELSE LET front == landmarkRoles(SubSeq(landmarks, 1, Len(landmarks) - 1))
             role  == landmarks[Len(landmarks)].role
         IN  IF inArray(front, role) THEN front ELSE Append(front, role)

\* landmarkLabels[role]
landmarkLabels(landmarks, role) ==
    LET ofRole == SelectSeq(landmarks, LAMBDA l : l.role = role)
    IN  [i \in 1..Len(ofRole) |->
            IF TruthyStr(ofRole[i], "label") THEN ofRole[i].label ELSE "(unlabeled)"]

checkLandmarks(landmarks) ==
    LET roles == landmarkRoles(landmarks)
        duplicated == SelectSeq(roles,
                          LAMBDA role : Len(landmarkLabels(landmarks, role)) > 1)
        uniqueness ==
            [i \in 1..Len(duplicated) |->
                LET role   == duplicated[i]
                    labels == landmarkLabels(landmarks, role)
                    count  == Len(labels)
                    uniqueLabels == SetOf(labels)
                    hasUniqueLabels == /\ Cardinality(uniqueLabels) = count
                                       /\ "(unlabeled)" \notin uniqueLabels
                IN  CheckResult("4.1.2", "Name, Role, Value", "A",
                        IF hasUniqueLabels THEN "pass" ELSE "fail",
                        IF hasUniqueLabels
                        THEN "Multiple " \o role \o " landmarks have unique labels"
                        ELSE "Multiple " \o role \o " landmarks lack unique labels: "
                             \o join(labels, ", "))
                    @@ [value |-> ToString(count) \o " " \o role \o " landmarks"]
                    @@ Prop("recommendation", ~hasUniqueLabels,
                            "Add unique aria-label or aria-labelledby to distinguish "
                            \o role \o " landmarks")]
        noMain ==
            IF ~inArray(roles, "main")
            THEN << CheckResult("4.1.2", "Name, Role, Value", "A", "warning",
                        "No main landmark found")
                    @@ [recommendation |-> "Add role=\"main\" or use <main> element for primary content"] >>
            ELSE << >>
        found == uniqueness \o noMain
    IN  IF Len(found) = 0 /\ Len(landmarks) > 0
        THEN << CheckResult("4.1.2", "Name, Role, Value", "A", "pass",
                    ToString(Len(landmarks)) \o " landmark(s) properly defined") >>
        ELSE found

\* a variant of checkLabelInName that compares without folding case
checkLabelInName_caseSensitive(input) ==
    LET visible     == trim(input.visibleLabel)
        accessible  == trim(input.accessibleName)
        labelInName == includes(accessible, visible)
    IN  << CheckResult("2.5.3", "Label in Name", "A",
                IF labelInName THEN "pass" ELSE "fail",
                IF labelInName
                THEN "Accessible name contains the visible label text"
                ELSE "Accessible name does NOT contain the visible label text")
            @@ [value |-> "Visible: \"" \o input.visibleLabel \o "\" | Accessible: \""
                          \o input.accessibleName \o "\""]
            @@ Prop("recommendation", ~labelInName,
                    "Ensure the accessible name includes the visible label text, ideally at the start") >>
        \o (IF labelInName /\ ~startsWith(accessible, visible)
            THEN << CheckResult("2.5.3", "Label in Name", "A", "warning",
                        "Visible label is not at the start of accessible name")
                    @@ [recommendation |-> "Place the visible label at the beginning of the accessible name for better voice control compatibility"] >>
            ELSE << >>)

checkLabelInName(input) ==
    LET visible     == trim(toLowerCase(input.visibleLabel))
        accessible  == trim(toLowerCase(input.accessibleName))
        labelInName == includes(accessible, visible)
    IN  << CheckResult("2.5.3", "Label in Name", "A",
                IF labelInName THEN "pass" ELSE "fail",
                IF labelInName
                THEN "Accessible name contains the visible label text"
                ELSE "Accessible name does NOT contain the visible label text")
            @@ [value |-> "Visible: \"" \o input.visibleLabel \o "\" | Accessible: \""
                          \o input.accessibleName \o "\""]
            @@ Prop("recommendation", ~labelInName,
                    "Ensure the accessible name includes the visible label text, ideally at the start") >>
        \o (IF labelInName /\ ~startsWith(accessible, visible)
            THEN << CheckResult("2.5.3", "Label in Name", "A", "warning",
                        "Visible label is not at the start of accessible name")
                    @@ [recommendation |-> "Place the visible label at the beginning of the accessible name for better voice control compatibility"] >>
            ELSE << >>)

-----------------------------------------------------------------------------
(* Form checks (packages/forms/src/checks.ts)                              *)

VALID_AUTOCOMPLETE_TOKENS ==
    "name" :> "Full name"
    @@ "honorific-prefix" :> "Prefix (Mr., Ms., Dr.)"
    @@ "given-name" :> "First name"
    @@ "additional-name" :> "Middle name"
    @@ "family-name" :> "Last name"
    @@ "honorific-suffix" :> "Suffix (Jr., III)"
    @@ "nickname" :> "Nickname"
    @@ "email" :> "Email address"
    @@ "username" :> "Username"
    @@ "new-password" :> "New password"
    @@ "current-password" :> "Current password"
    @@ "one-time-code" :> "One-time code (OTP)"
    @@ "organization-title" :> "Job title"
    @@ "organization" :> "Organization name"
    @@ "street-address" :> "Street address"
    @@ "address-line1" :> "Address line 1"
    @@ "address-line2" :> "Address line 2"
    @@ "address-line3" :> "Address line 3"
    @@ "address-level4" :> "Address level 4"
    @@ "address-level3" :> "Address level 3"
    @@ "address-level2" :> "City"
    @@ "address-level1" :> "State/Province"
    @@ "country" :> "Country code"
    @@ "country-name" :> "Country name"
    @@ "postal-code" :> "Postal/ZIP code"
    @@ "cc-name" :> "Cardholder name"
    @@ "cc-given-name" :> "Cardholder first name"
    @@ "cc-additional-name" :> "Cardholder middle name"
    @@ "cc-family-name" :> "Cardholder last name"
    @@ "cc-number" :> "Credit card number"
    @@ "cc-exp" :> "Card expiration date"
    @@ "cc-exp-month" :> "Card expiration month"
    @@ "cc-exp-year" :> "Card expiration year"
    @@ "cc-csc" :> "Card security code"
    @@ "cc-type" :> "Card type"
    @@ "transaction-currency" :> "Transaction currency"
    @@ "transaction-amount" :> "Transaction amount"
    @@ "language" :> "Preferred language"
    @@ "bday" :> "Birthday"
    @@ "bday-day" :> "Birthday day"
    @@ "bday-month" :> "Birthday month"
    @@ "bday-year" :> "Birthday year"
    @@ "sex" :> "Sex/Gender"
    @@ "tel" :> "Full telephone number"
    @@ "tel-country-code" :> "Country code"
    @@ "tel-national" :> "National telephone number"
    @@ "tel-area-code" :> "Area code"
    @@ "tel-local" :> "Local telephone number"
    @@ "tel-extension" :> "Phone extension"
    @@ "impp" :> "IM protocol endpoint"
    @@ "url" :> "Website URL"
    @@ "photo" :> "Photo URL"

\* VALID_AUTOCOMPLETE_TOKENS is a plain object, so a lookup also finds what it
\* inherits from Object.prototype; read in a template, an inherited function
\* prints as its source text
ObjectPrototype == "constructor" :> "function Object() { [native code] }"

\* VALID_AUTOCOMPLETE_TOKENS[token] as an optional "purpose" property
tokenPurpose(token) ==
    IF token \in DOMAIN VALID_AUTOCOMPLETE_TOKENS
    THEN [purpose |-> VALID_AUTOCOMPLETE_TOKENS[token]]
    ELSE IF token \in DOMAIN ObjectPrototype
    THEN [purpose |-> ObjectPrototype[token]]
    ELSE EmptyRecord

checkFormLabels(input) ==
    LET hasLabel == input.hasVisibleLabel \/ input.hasAccessibleLabel
    IN  (IF ~hasLabel
         THEN << CheckResult("3.3.2", "Labels or Instructions", "A", "fail",
                     input.fieldType \o " field lacks label")
                 @@ [recommendation |-> "Add a visible label associated with the form field using <label> element or aria-labelledby"] >>
         ELSE << CheckResult("3.3.2", "Labels or Instructions", "A", "pass",
                     input.fieldType \o " field has "
                     \o (IF input.hasVisibleLabel THEN "visible" ELSE "accessible")
                     \o " label")
                 @@ [value |-> IF TruthyStr(input, "labelText") THEN input.labelText
                               ELSE "(accessible label provided)"] >>)
        \o (IF Truthy(input, "placeholderAsLabel")
            THEN << CheckResult("3.3.2", "Labels or Instructions", "A", "fail",
                        "Placeholder text used as only label")
                    @@ [recommendation |-> "Placeholders disappear on input; use persistent visible labels instead"] >>
            ELSE << >>)
        \o (IF input.hasVisibleLabel /\ ~input.hasAccessibleLabel
            THEN << CheckResult("3.3.2", "Labels or Instructions", "A", "warning",
                        "Visible label may not be programmatically associated")
                    @@ [recommendation |-> "Use <label for=\"id\">, aria-labelledby, or wrap input in label element"] >>
            ELSE << >>)
        \o (IF Truthy(input, "isRequired") /\ ~Truthy(input, "requiredIndicatedVisually")
            THEN << CheckResult("3.3.2", "Labels or Instructions", "A", "warning",
                        "Required field not indicated visually")
                    @@ [recommendation |-> "Add visual indicator (asterisk, 'required' text) for required fields"] >>
            ELSE << >>)
        \o (IF Truthy(input, "isRequired")
               /\ ~Truthy(input, "requiredIndicatedProgrammatically")
            THEN << CheckResult("3.3.2", "Labels or Instructions", "A", "fail",
                        "Required field not indicated programmatically")
                    @@ [recommendation |-> "Add required attribute or aria-required=\"true\""] >>
            ELSE << >>)

userInfoFields == << "name", "email", "tel", "password", "address", "cc", "bday" >>

checkInputPurpose(input) ==
    LET isUserInfoField ==
            \E i \in 1..Len(userInfoFields) :
                \/ includes(input.fieldType, userInfoFields[i])
                \/ /\ TruthyStr(input, "inputPurpose")
                   /\ includes(input.inputPurpose, userInfoFields[i])
    IN  IF ~isUserInfoField /\ ~TruthyStr(input, "autocomplete")
        THEN << >>
        ELSE IF TruthyStr(input, "autocomplete")
        THEN LET parts == split(input.autocomplete, " ")
                 token == parts[Len(parts)]
                 purpose == tokenPurpose(token)
                 isValidToken == Has(purpose, "purpose")
             IN  << CheckResult("1.3.5", "Identify Input Purpose", "AA",
                        IF isValidToken THEN "pass" ELSE "warning",
                        IF isValidToken
                        THEN "Input purpose identified: " \o purpose.purpose
                             \o " (autocomplete=\"" \o input.autocomplete \o "\")"
                        ELSE "Autocomplete value \"" \o input.autocomplete
                             \o "\" may not be a standard token")
                    @@ [value |-> input.autocomplete]
                    @@ Prop("recommendation", ~isValidToken,
                            "Use standard autocomplete tokens from HTML specification") >>
        ELSE << CheckResult("1.3.5", "Identify Input Purpose", "AA", "warning",
                    input.fieldType
                    \o " field collecting user info should have autocomplete attribute")
                @@ [recommendation |-> "Add appropriate autocomplete attribute (e.g., autocomplete=\"email\")"] >>

checkErrorIdentification(input) ==
    IF ~input.hasErrors
    THEN << CheckResult("3.3.1", "Error Identification", "A", "info",
                "No form errors to validate") >>
    ELSE
    LET identifiedInText == Truthy(input, "errorsInText")
                            /\ Truthy(input, "errorFieldIdentified")
    IN  << CheckResult("3.3.1", "Error Identification", "A",
                IF identifiedInText THEN "pass" ELSE "fail",
                IF identifiedInText
                THEN "Input error is identified and described in text"
                ELSE "Input error not properly identified in text")
            @@ AndValue(input, <<"errorsInText", "errorFieldIdentified">>)
            @@ Prop("recommendation", ~identifiedInText,
                    "Identify the field with error and describe the error in text (not just color/icon)") >>
        \o (IF ~Truthy(input, "errorDescribed")
            THEN << CheckResult("3.3.1", "Error Identification", "A", "warning",
                        "Error may not be clearly described")
                    @@ [recommendation |-> "Provide clear description of what went wrong"] >>
            ELSE << >>)
        \o (IF Truthy(input, "errorsInText")
            THEN << CheckResult("3.3.3", "Error Suggestion", "AA",
                        IF Truthy(input, "hasSuggestions") THEN "pass" ELSE "fail",
                        IF Truthy(input, "hasSuggestions")
                        THEN "Suggestions provided for correcting the error"
                        ELSE "No suggestions provided for correcting the error")
                    @@ (IF Has(input, "hasSuggestions")
                        THEN [value |-> input.hasSuggestions] ELSE EmptyRecord)
                    @@ Prop("recommendation", ~Truthy(input, "hasSuggestions"),
                            "Provide suggestions for fixing the error (unless it would compromise security)") >>
            ELSE << >>)
        \o (IF ~Truthy(input, "errorAnnounced")
            THEN << CheckResult("3.3.1", "Error Identification", "A", "warning",
                        "Error may not be announced to screen readers")
                    @@ [recommendation |-> "Use aria-live region, role=\"alert\", or aria-describedby to announce errors"] >>
            ELSE << >>)

highStakes == << "legal", "financial", "data-modification" >>

checkErrorPrevention(input) ==
    IF ~inArray(highStakes, input.transactionType)
    THEN << CheckResult("3.3.4", "Error Prevention (Legal, Financial, Data)", "AA", "info",
                "Transaction type \"" \o input.transactionType
                \o "\" may not require error prevention measures") >>
    ELSE
    LET hasPrevention == \/ Truthy(input, "isReversible")
                         \/ Truthy(input, "dataIsChecked")
                         \/ Truthy(input, "canReview")
                         \/ Truthy(input, "requiresConfirmation")
        preventionMethods ==
            Truthies(<< <<Truthy(input, "isReversible"), "reversible">>,
                        <<Truthy(input, "dataIsChecked"), "checked for errors">>,
                        <<Truthy(input, "canReview"), "review before submission">>,
                        <<Truthy(input, "requiresConfirmation"), "confirmation required">> >>)
    IN  << CheckResult("3.3.4", "Error Prevention (Legal, Financial, Data)", "AA",
                IF hasPrevention THEN "pass" ELSE "fail",
                IF hasPrevention
                THEN "Error prevention: " \o join(preventionMethods, ", ")
                ELSE input.transactionType
                     \o " transaction lacks error prevention mechanism")
            @@ OrValue(input, <<"isReversible", "dataIsChecked", "canReview",
                                "requiresConfirmation">>)
            @@ Prop("recommendation", ~hasPrevention,
                    "Provide at least one: reversibility, error checking, review opportunity, or confirmation"),
           CheckResult("3.3.6", "Error Prevention (All)", "AAA",
                IF hasPrevention THEN "pass" ELSE "warning",
                IF hasPrevention
                THEN "Form submission has error prevention (meets AAA for all submissions)"
                ELSE "Consider adding error prevention for all form submissions (AAA)")
            @@ Prop("recommendation", ~hasPrevention,
                    "For AAA, all submissions should be reversible, checked, or confirmed") >>

checkInputConstraints(input) ==
    IF ~input.hasFormatRequirements
    THEN << >>
    ELSE
    LET hasInstructions == Truthy(input, "formatExplained")
                           \/ Truthy(input, "exampleProvided")
        hasHelp == hasInstructions /\ Truthy(input, "hasRealtimeValidation")
    IN  << CheckResult("3.3.2", "Labels or Instructions", "A",
                IF hasInstructions THEN "pass" ELSE "fail",
                IF hasInstructions
                THEN "Format requirements for " \o input.fieldName \o ": "
                     \o join(Truthies(<< <<Truthy(input, "formatExplained"), "explained">>,
                                         <<Truthy(input, "exampleProvided"), "example provided">> >>),
                             ", ")
                ELSE input.fieldName \o " has format requirements but no instructions")
            @@ OrValue(input, <<"formatExplained", "exampleProvided">>)
            @@ Prop("recommendation", ~hasInstructions,
                    "Explain required format and provide examples (e.g., 'MM/DD/YYYY')"),
           CheckResult("3.3.5", "Help", "AAA",
                IF hasHelp THEN "pass" ELSE "warning",
                IF hasHelp
                THEN "Context-sensitive help is available"
                ELSE "Consider providing context-sensitive help for complex inputs")
            @@ Prop("recommendation", ~hasHelp,
                    "Provide inline help, tooltips, or real-time validation feedback") >>

checkOnInput(input) ==
    IF ~input.changesContextOnInput
    THEN << CheckResult("3.2.2", "On Input", "A", "pass",
                input.elementType \o " does not change context on input") >>
    ELSE << CheckResult("3.2.2", "On Input", "A",
                IF Truthy(input, "userWarned") THEN "pass" ELSE "fail",
                IF Truthy(input, "userWarned")
                THEN input.elementType \o " changes context but user is warned in advance"
                ELSE input.elementType \o " changes context unexpectedly on input")
            @@ (IF Has(input, "userWarned")
                THEN [value |-> input.userWarned] ELSE EmptyRecord)
            @@ Prop("recommendation", ~Truthy(input, "userWarned"),
                    "Either prevent context change on input, or warn user beforehand") >>

validateForm(input) ==
    flatten([i \in 1..Len(input.fields) |->
                checkFormLabels(input.fields[i]) \o checkInputPurpose(input.fields[i])])
    \o (IF Has(input, "errors") THEN checkErrorIdentification(input.errors) ELSE << >>)

-----------------------------------------------------------------------------
(* Media checks (packages/media/src/checks.ts)                             *)

checkCaptions(input) ==
    IF input.mediaType = "video"
    THEN << CheckResult("1.2.2", "Captions (Prerecorded)", "A", "info",
                "Video-only content without audio does not require captions") >>
    ELSE IF input.isLive
    THEN << CheckResult("1.2.4", "Captions (Live)", "AA",
                IF input.hasCaptions THEN "pass" ELSE "fail",
                IF input.hasCaptions THEN "Live captions are provided"
                ELSE "Live media lacks captions")
            @@ [value |-> input.hasCaptions]
            @@ Prop("recommendation", ~input.hasCaptions,
                    "Provide real-time captions for live audio content") >>
    ELSE
        << CheckResult("1.2.2", "Captions (Prerecorded)", "A",
               IF input.hasCaptions THEN "pass" ELSE "fail",
               IF input.hasCaptions THEN "Captions are provided for prerecorded media"
               ELSE "Prerecorded media lacks captions")
           @@ [value |-> input.hasCaptions]
           @@ Prop("recommendation", ~input.hasCaptions,
                   "Provide synchronized captions for all prerecorded audio content") >>
        \o (IF input.hasCaptions /\ Has(input, "areSynchronized")
               /\ input.areSynchronized = FALSE
            THEN << CheckResult("1.2.2", "Captions (Prerecorded)", "A", "warning",
                        "Captions may not be properly synchronized")
                    @@ [recommendation |-> "Ensure captions are synchronized with the audio"] >>
            ELSE << >>)
        \o (IF input.hasCaptions /\ Has(input, "includesNonSpeechAudio")
               /\ input.includesNonSpeechAudio = FALSE
            THEN << CheckResult("1.2.2", "Captions (Prerecorded)", "A", "warning",
                        "Captions may not include non-speech audio (sound effects, music)")
                    @@ [recommendation |-> "Include descriptions of relevant sound effects and music in captions"] >>
            ELSE << >>)

checkAudioDescription(input) ==
    IF ~input.hasVideoContent
    THEN << CheckResult("1.2.5", "Audio Description (Prerecorded)", "AA", "info",
                "Audio description only applies to video content") >>
    ELSE IF ~input.isPrerecorded
    THEN << CheckResult("1.2.5", "Audio Description (Prerecorded)", "AA", "info",
                "Audio description requirement applies to prerecorded content") >>
    ELSE
    LET hasAlternative == input.hasAudioDescription \/ Truthy(input, "hasMediaAlternative")
    IN  << CheckResult("1.2.3", "Audio Description or Media Alternative (Prerecorded)", "A",
                IF hasAlternative THEN "pass" ELSE "fail",
                IF hasAlternative
                THEN "Alternative provided: "
                     \o join(Truthies(<< <<input.hasAudioDescription, "audio description">>,
                                         <<Truthy(input, "hasMediaAlternative"),
                                           "media alternative/transcript">> >>),
                             ", ")
                ELSE "No audio description or media alternative provided")
            @@ OrValue(input, <<"hasAudioDescription", "hasMediaAlternative">>)
            @@ Prop("recommendation", ~hasAlternative,
                    "Provide audio description or full text alternative for video content"),
           CheckResult("1.2.5", "Audio Description (Prerecorded)", "AA",
                IF input.hasAudioDescription THEN "pass" ELSE "fail",
                IF input.hasAudioDescription THEN "Audio description is provided"
                ELSE "Audio description is not provided")
            @@ [value |-> input.hasAudioDescription]
            @@ Prop("recommendation", ~input.hasAudioDescription,
                    "Provide audio description for visual information not available from audio track") >>
        \o (IF Has(input, "pausesAreSufficient") /\ input.pausesAreSufficient = FALSE
            THEN LET extended == Truthy(input, "hasExtendedDescription")
                 IN  << CheckResult("1.2.7", "Extended Audio Description (Prerecorded)", "AAA",
                            IF extended THEN "pass" ELSE "warning",
                            IF extended
                            THEN "Extended audio description is provided where pauses are insufficient"
                            ELSE "Pauses may be insufficient for audio description; consider extended description")
                        @@ (IF Has(input, "hasExtendedDescription")
                            THEN [value |-> input.hasExtendedDescription] ELSE EmptyRecord)
                        @@ Prop("recommendation", ~extended,
                                "Provide extended audio description that pauses video for additional description") >>
            ELSE << >>)

checkTranscript(input) ==
    (IF input.mediaType = "audio"
     THEN << CheckResult("1.2.1", "Audio-only and Video-only (Prerecorded)", "A",
                 IF input.hasTranscript THEN "pass" ELSE "fail",
                 IF input.hasTranscript THEN "Transcript provided for audio-only content"
                 ELSE "Audio-only content lacks transcript")
             @@ [value |-> input.hasTranscript]
             @@ Prop("recommendation", ~input.hasTranscript,
                     "Provide a text transcript for audio-only content") >>
     ELSE << >>)
    \o (IF input.mediaType = "video"
        THEN << CheckResult("1.2.1", "Audio-only and Video-only (Prerecorded)", "A",
                    IF input.hasTranscript THEN "pass" ELSE "fail",
                    IF input.hasTranscript THEN "Alternative provided for video-only content"
                    ELSE "Video-only content lacks text alternative or audio track")
                @@ [value |-> input.hasTranscript]
                @@ Prop("recommendation", ~input.hasTranscript,
                        "Provide text alternative or audio track describing video content") >>
        ELSE << >>)
    \o (IF input.mediaType = "audio-video"
        THEN LET hasFullAlternative ==
                     input.hasTranscript /\ Truthy(input, "includesVisualDescriptions")
             IN  << CheckResult("1.2.8", "Media Alternative (Prerecorded)", "AAA",
                        IF hasFullAlternative THEN "pass" ELSE "warning",
                        IF hasFullAlternative
                        THEN "Full media alternative (transcript with visual descriptions) is provided"
                        ELSE "Consider providing complete text alternative including visual descriptions")
                    @@ AndValue(input, <<"hasTranscript", "includesVisualDescriptions">>)
                    @@ Prop("recommendation", ~hasFullAlternative,
                            "Provide transcript that includes all audio and visual information") >>
        ELSE << >>)

checkMediaControls(input) ==
    IF ~input.autoplays
    THEN << CheckResult("1.4.2", "Audio Control", "A", "pass",
                "Media does not autoplay") >>
    ELSE IF ~(OrDefault(input, "autoplayDuration", 0) > 300)
    THEN << CheckResult("1.4.2", "Audio Control", "A", "pass",
                "Autoplay duration is 3 seconds or less") >>
    ELSE
    LET hasControl == \/ Truthy(input, "canPause") \/ Truthy(input, "canStop")
                      \/ Truthy(input, "canMute") \/ Truthy(input, "hasVolumeControl")
    IN  << CheckResult("1.4.2", "Audio Control", "A",
                IF hasControl THEN "pass" ELSE "fail",
                IF hasControl
                THEN "Audio control available: "
                     \o join(Truthies(<< <<Truthy(input, "canPause"), "pause">>,
                                         <<Truthy(input, "canStop"), "stop">>,
                                         <<Truthy(input, "canMute"), "mute">>,
                                         <<Truthy(input, "hasVolumeControl"), "volume control">> >>),
                             ", ")
                ELSE "Auto-playing audio lacks mechanism to pause, stop, or control volume")
            @@ OrValue(input, <<"canPause", "canStop", "canMute", "hasVolumeControl">>)
            @@ Prop("recommendation", ~hasControl,
                    "Provide mechanism to pause, stop, or control audio volume independent of system volume") >>

checkAnimation(input) ==
    IF ~input.hasAutoAnimation
    THEN << CheckResult("2.2.2", "Pause, Stop, Hide", "A", "pass",
                "No auto-playing animation detected") >>
    ELSE IF Truthy(input, "isEssential")
    THEN << CheckResult("2.2.2", "Pause, Stop, Hide", "A", "pass",
                "Animation is essential to the content") >>
    ELSE IF ~(OrDefault(input, "duration", 600) > 500)
    THEN << CheckResult("2.2.2", "Pause, Stop, Hide", "A", "pass",
                "Animation duration is 5 seconds or less") >>
    ELSE
    LET hasControl == \/ Truthy(input, "canPause") \/ Truthy(input, "canStop")
                      \/ Truthy(input, "canHide")
        canDisable == Truthy(input, "canPause") \/ Truthy(input, "canStop")
    IN  << CheckResult("2.2.2", "Pause, Stop, Hide", "A",
                IF hasControl THEN "pass" ELSE "fail",
                IF hasControl
                THEN "Animation control available: "
                     \o join(Truthies(<< <<Truthy(input, "canPause"), "pause">>,
                                         <<Truthy(input, "canStop"), "stop">>,
                                         <<Truthy(input, "canHide"), "hide">> >>),
                             ", ")
                ELSE "Auto-playing animation lacks mechanism to pause, stop, or hide")
            @@ OrValue(input, <<"canPause", "canStop", "canHide">>)
            @@ Prop("recommendation", ~hasControl,
                    "Provide mechanism to pause, stop, or hide moving, blinking, or scrolling content"),
           CheckResult("2.3.3", "Animation from Interactions", "AAA",
                IF canDisable THEN "pass" ELSE "warning",
                IF canDisable
                THEN "Motion animation can be disabled"
                ELSE "Consider allowing users to disable motion animation (respects prefers-reduced-motion)")
            @@ Prop("recommendation", ~canDisable,
                    "Honor prefers-reduced-motion media query and provide option to disable animation") >>

\* a variant of flashIsSafe with three flashes per second already unsafe
flashIsSafe_belowThreeOnly(flashesPerSecond, input) ==
    flashesPerSecond < 300 \/ Truthy(input, "isBelowThreshold")

\* isSafe of checkFlashing: flashesPerSecond <= 3 || input.isBelowThreshold
flashIsSafe(flashesPerSecond, input) ==
    flashesPerSecond <= 300 \/ Truthy(input, "isBelowThreshold")

checkFlashing(input) ==
    IF ~input.hasFlashing
    THEN << CheckResult("2.3.1", "Three Flashes or Below Threshold", "A", "pass",
                "No flashing content detected") >>
    ELSE
    LET flashesPerSecond == OrDefault(input, "flashesPerSecond", 0)
        isSafe     == flashIsSafe(flashesPerSecond, input)
        noFlashing == flashesPerSecond = 0
    IN  << CheckResult("2.3.1", "Three Flashes or Below Threshold", "A",
                IF isSafe THEN "pass" ELSE "fail",
                IF isSafe
                THEN "Flashing content is safe (" \o NumStr(flashesPerSecond)
                     \o " flashes/sec or below threshold)"
                ELSE "Content flashes " \o NumStr(flashesPerSecond)
                     \o " times per second, exceeding safe threshold")
            @@ [value |-> flashesPerSecond, required |-> 300]
            @@ Prop("recommendation", ~isSafe,
                    "Reduce flash frequency to 3 or fewer per second, or ensure flashes are below general flash threshold"),
           CheckResult("2.3.2", "Three Flashes", "AAA",
                IF noFlashing THEN "pass" ELSE "warning",
                IF noFlashing
                THEN "Content does not flash (meets AAA)"
                ELSE "Content flashes " \o NumStr(flashesPerSecond)
                     \o " times per second - consider removing for AAA")
            @@ [value |-> flashesPerSecond]
            @@ Prop("recommendation", ~noFlashing,
                    "For AAA compliance, avoid any flashing content") >>
        \o (IF OrDefault(input, "flashAreaPercent", 0) > 2500
            THEN << CheckResult("2.3.1", "Three Flashes or Below Threshold", "A", "warning",
                        "Flashing area (" \o NumStr(input.flashAreaPercent)
                        \o "% of viewport) is large")
                    @@ [value |-> input.flashAreaPercent,
                        recommendation |-> "Large flashing areas increase seizure risk; minimize flashing area size"] >>
            ELSE << >>)

checkSignLanguage(input) ==
    IF ~input.hasAudioContent \/ ~input.isPrerecorded
    THEN << >>
    ELSE << CheckResult("1.2.6", "Sign Language (Prerecorded)", "AAA",
                IF input.hasSignLanguage THEN "pass" ELSE "warning",
                IF input.hasSignLanguage
                THEN "Sign language interpretation is provided"
                ELSE "Consider providing sign language interpretation for deaf users")
            @@ [value |-> input.hasSignLanguage]
            @@ Prop("recommendation", ~input.hasSignLanguage,
                    "Provide sign language interpretation for all prerecorded audio content") >>

-----------------------------------------------------------------------------
(* Inputs of the model                                                     *)

\* s repeated n times
RECURSIVE Repeat(_, _)
Repeat(s, n) == IF n = 0 THEN "" ELSE s \o Repeat(s, n - 1)

SeqsUpTo(S, n) == UNION {[1..k -> S] : k \in 0..n}

\* colour strings: the ones culori parses, and two it rejects
Colors == DOMAIN ColorTable \cup {"notacolor", ""}

\* font sizes in hundredths of a pixel, around the large-text boundaries
FontSizes == {1600, 1865, 1866, 2399, 2400}

Line80 == Repeat("0123456789", 8)

\* texts with lines of up to 81 characters; the last has lines of 80 and of
\* 5 characters that end in a carriage return and a line feed
SampleTexts ==
    {"", "short line", Line80, Line80 \o "x",
     "0123456789\n" \o Line80 \o "\n" \o Line80 \o "x",
     Line80 \o "\r\n" \o "short" \o "\r\n"}

LangValues == {"", "e", "en", "en-US"}

\* the instants at which a report may be rendered
Timestamps == {"2025-01-01T00:00:00.000Z", "2025-06-30T12:00:00.000Z"}

\* verdicts handed directly to the report builder: a pass and a fail at every
\* level (the fail at AA without a recommendation), a warning, the info
\* verdict the text-spacing check gives when no spacing property is supplied,
\* and a verdict with a dangling criterion id
SampleVerdict(status, level) ==
    CheckResult(CASE level = "A" -> "3.1.1" [] level = "AA" -> "1.4.3" [] OTHER -> "1.4.6",
                CASE level = "A" -> "Language of Page"
                  [] level = "AA" -> "Contrast (Minimum)"
                  [] OTHER -> "Contrast (Enhanced)",
                level, status, "sample " \o status \o " at level " \o level)
    @@ Prop("recommendation", status \in {"fail", "warning"} /\ level # "AA",
            "fix the " \o status)

\* a verdict whose criterion id (of WCAG 2.2) the catalog does not hold
DanglingVerdict ==
    CheckResult("2.5.8", "Target Size (Minimum)", "AA", "pass",
                "sample pass under an id that is not catalogued")

SampleVerdicts ==
    {SampleVerdict(s, l) : s \in {"pass", "fail"}, l \in WcagLevel}
    \cup {SampleVerdict("warning", "AAA"), checkTextSpacing([fontSize |-> 1600])[1],
          DanglingVerdict}

ReportOptions == {EmptyRecord, [title |-> "Custom Report", category |-> "text"]}

-----------------------------------------------------------------------------
(* Request handling                                                        *)

NoTool == [name |-> "none", options |-> EmptyRecord, builder |-> "none"]

\* no call has been picked for comparison
NoCall == [name |-> "none", args |-> EmptyRecord, results |-> << >>, between |-> FALSE]

Init ==
    /\ pc = "idle"
    /\ tool = NoTool
    /\ args = EmptyRecord
    /\ results = << >>
    /\ report = Undefined
    /\ earlier = NoCall

\* the picked call is kept while other tools are called (which is noted) and
\* while its tool is called again on the same arguments; a call of its tool on
\* other arguments drops it
Observe(name, input) ==
    IF name # earlier.name
    THEN IF earlier = NoCall THEN earlier ELSE [earlier EXCEPT !.between = TRUE]
    ELSE IF input = earlier.args THEN earlier ELSE NoCall

\* a check (or orchestrator) runs on the request's arguments
Invoke(name, options, input, output) ==
    /\ pc = "idle"
    /\ tool' = [name |-> name, options |-> options, builder |-> "none"]
    /\ args' = input
    /\ results' = output
    /\ pc' = "checked"
    /\ earlier' = Observe(name, input)
    /\ UNCHANGED report

call_checkContrastRatio ==
    /\ pc = "idle"
    /\ \E fg \in Colors, bg \in Colors,
          size \in {[sizePx |-> s] : s \in FontSizes},
          bold \in OptBools({"isBold"}) :
           LET input == [foreground |-> fg, background |-> bg] @@ size @@ bold
           IN  Invoke("checkContrastRatio", EmptyRecord, input,
                      checkContrastRatio(input.foreground, input.background, input.sizePx,
                                         OrDefault(input, "isBold", FALSE)))

\* the font sizes of text-spacing requests: 10px, 16px, 18.66px, 35px
SpacingFontSizes == {1000, 1600, 1866, 3500}

\* a spacing value left out, or one around fontSize * multiplier: the largest
\* number of hundredths not above it, and the hundredths next to that
SpacingValues(field, fontSize, multiplier) ==
    {EmptyRecord}
    \cup {field :> ((fontSize * multiplier) \div 100 + d) : d \in {-1, 0, 1}}

call_checkTextSpacing ==
    /\ pc = "idle"
    /\ \E fs \in SpacingFontSizes :
        \E lh \in SpacingValues("lineHeight", fs, REQUIREMENTS.textSpacing.lineHeight),
           ls \in SpacingValues("letterSpacing", fs, REQUIREMENTS.textSpacing.letterSpacing),
           ws \in SpacingValues("wordSpacing", fs, REQUIREMENTS.textSpacing.wordSpacing),
           ps \in SpacingValues("paragraphSpacing", fs,
                                REQUIREMENTS.textSpacing.paragraphSpacing) :
            LET input == [fontSize |-> fs] @@ lh @@ ls @@ ws @@ ps
            IN  Invoke("checkTextSpacing", EmptyRecord, input, checkTextSpacing(input))

call_checkLineLength ==
    /\ pc = "idle"
    /\ \E text \in SampleTexts :
           Invoke("checkLineLength", EmptyRecord, [text |-> text], checkLineLength(text))

call_checkTextJustification ==
    /\ pc = "idle"
    /\ \E j \in BOOLEAN :
           Invoke("checkTextJustification", EmptyRecord, [isJustified |-> j],
                  checkTextJustification(j))

call_checkResizeText ==
    /\ pc = "idle"
    /\ \E u \in BOOLEAN, f \in BOOLEAN :
           Invoke("checkResizeText", EmptyRecord,
                  [usesRelativeUnits |-> u, hasFixedContainers |-> f],
                  checkResizeText(u, f))

call_checkLanguage ==
    /\ pc = "idle"
    /\ \E h \in BOOLEAN,
          lv \in {EmptyRecord} \cup {[langValue |-> v] : v \in LangValues} :
           LET input == [hasLangAttribute |-> h] @@ lv
           IN  Invoke("checkLanguage", EmptyRecord, input, checkLanguage(input))

call_checkImagesOfText ==
    /\ pc = "idle"
    /\ \E a \in {[hasImagesOfText |-> h] @@ e : h \in BOOLEAN, e \in OptBools({"isEssential"})} :
           Invoke("checkImagesOfText", EmptyRecord, a,
                  checkImagesOfText(a.hasImagesOfText, OrDefault(a, "isEssential", FALSE)))

call_validateAll ==
    /\ pc = "idle"
    /\ \E fg \in {"#333333", "notacolor"},
          bg \in {"#ffffff", ""},
          sp \in {EmptyRecord, [lineHeight |-> 2399], [lineHeight |-> 2400]},
          st \in {EmptyRecord, [sampleText |-> ""], [sampleText |-> Line80 \o "x"]},
          ob \in OptBools({"isJustified", "usesRelativeUnits"}),
          fc \in {EmptyRecord, [hasFixedContainers |-> TRUE]},
          lang \in {EmptyRecord, [hasLangAttribute |-> FALSE],
                    [hasLangAttribute |-> TRUE, langValue |-> "en"]},
          img \in {EmptyRecord, [hasImagesOfText |-> FALSE],
                   [hasImagesOfText |-> TRUE, imagesAreEssential |-> TRUE]} :
           LET input == [foreground |-> fg, background |-> bg, fontSize |-> 1600]
                        @@ sp @@ st @@ ob @@ fc @@ lang @@ img
           IN  Invoke("validateAll", EmptyRecord, input, validateAll(input))

\* a caller hands a verdict sequence of its own to the report builder
call_createReport ==
    /\ pc = "idle"
    /\ \E V \in SeqsUpTo(SampleVerdicts, MaxVerdicts), o \in ReportOptions :
           Invoke("createReport", o, EmptyRecord, V)

\* the handler builds the report with the core report builder
BuildReport ==
    /\ pc = "checked"
    /\ \E now \in Timestamps : report' = createReport(results, tool.options, now)
    /\ tool' = [tool EXCEPT !.builder = "core"]
    /\ pc' = "reported"
    /\ UNCHANGED <<args, results, earlier>>

\* the text server's handler builds the report with its own builder
TextServerBuildReport ==
    /\ pc = "checked"
    /\ \E now \in Timestamps : report' = textServer_createReport(results, now)
    /\ tool' = [tool EXCEPT !.builder = "textServer"]
    /\ pc' = "reported"
    /\ UNCHANGED <<args, results, earlier>>

\* the verdicts are returned to the caller; nothing of the call survives it
Return ==
    /\ pc = "checked"
    /\ pc' = "idle"
    /\ tool' = NoTool
    /\ args' = EmptyRecord
    /\ results' = << >>
    /\ UNCHANGED <<report, earlier>>

\* the response is returned; nothing of the request survives it
Respond ==
    /\ pc = "reported"
    /\ pc' = "idle"
    /\ tool' = NoTool
    /\ args' = EmptyRecord
    /\ results' = << >>
    /\ report' = Undefined
    /\ UNCHANGED earlier

\* the call that has just returned its verdicts is picked for comparison
Remember ==
    /\ pc = "checked"
    /\ earlier' = [name |-> tool.name, args |-> args, results |-> results,
                   between |-> FALSE]
    /\ UNCHANGED <<pc, tool, args, results, report>>

-----------------------------------------------------------------------------
(* Calls of the structure checks                                           *)

HeadingSamples == {[level |-> l, text |-> "Heading " \o ToString(l)] : l \in 1..4}

NavOrders == {<<"Home", "About">>, <<"About", "Home">>, <<"Home,About">>, << >>}

ComponentSamples ==
    {[function |-> "search", identifiers |-> ids] :
        ids \in {<<"Search">>, <<"Find">>, <<"Search", "Find">>, <<"Search", "Search">>}}
    \cup {[function |-> "cart", identifiers |-> <<"Cart">>]}

call_checkHeadingStructure ==
    /\ pc = "idle"
    /\ \E hs \in SeqsUpTo(HeadingSamples, MaxItems),
          c \in {EmptyRecord} \cup {[h1Count |-> n] : n \in 0..2} :
           LET input == [headings |-> hs] @@ c
           IN  Invoke("checkHeadingStructure", EmptyRecord, input, checkHeadingStructure(input))

call_checkPageTitle ==
    /\ pc = "idle"
    /\ \E h \in BOOLEAN,
          t \in {EmptyRecord} \cup
                {[titleText |-> v] : v \in {"", "  ", "Home", " HOME ", "Pricing - Acme"}},
          d \in OptBools({"isDescriptive"}) :
           LET input == [hasTitle |-> h] @@ t @@ d
           IN  Invoke("checkPageTitle", EmptyRecord, input, checkPageTitle(input))

call_checkLinkPurpose ==
    /\ pc = "idle"
    /\ \E t \in {"Click Here", " Read More ", "Annual report 2024", "More reports", ""},
          d \in OptBools({"isDescriptive", "hasContext"}),
          w \in OptBools({"opensNewWindow", "newWindowIndicated"}) :
           LET input == [linkText |-> t] @@ d @@ w
           IN  Invoke("checkLinkPurpose", EmptyRecord, input, checkLinkPurpose(input))

call_checkBypassBlocks ==
    /\ pc = "idle"
    /\ \E s \in BOOLEAN,
          t \in {EmptyRecord, [skipLinkTarget |-> ""], [skipLinkTarget |-> "#main"]},
          b \in OptBools({"hasLandmarks", "hasHeadingStructure"}),
          l \in {EmptyRecord, [landmarks |-> << >>],
                 [landmarks |-> <<"main", "navigation">>]} :
           LET input == [hasSkipLink |-> s] @@ t @@ b @@ l
           IN  Invoke("checkBypassBlocks", EmptyRecord, input, checkBypassBlocks(input))

call_checkReadingOrder ==
    /\ pc = "idle"
    /\ \E v \in BOOLEAN,
          b \in OptBools({"hasCssReordering", "hasPositiveTabindex"}),
          r \in {EmptyRecord, [reorderedElements |-> << >>],
                 [reorderedElements |-> <<".sidebar", ".hero">>]} :
           LET input == [visualMatchesDom |-> v] @@ b @@ r
           IN  Invoke("checkReadingOrder", EmptyRecord, input, checkReadingOrder(input))

call_checkInfoRelationships ==
    /\ pc = "idle"
    /\ \E p \in BOOLEAN,
          s \in OptBools({"usesSemanticHtml"}),
          i \in {EmptyRecord} \cup
                {[issues |-> v] :
                    v \in SeqsUpTo({"Missing th scope", "Layout table"}, MaxItems)} :
           LET input == [elementType |-> "table", isProgrammatic |-> p] @@ s @@ i
           IN  Invoke("checkInfoRelationships", EmptyRecord, input, checkInfoRelationships(input))

call_checkMultipleWays ==
    /\ pc = "idle"
    /\ \E m \in OptBools({"siteMap", "search", "navigation"}),
          S \in SUBSET {"tableOfContents", "relatedLinks", "breadcrumbs"},
          p \in OptBools({"isProcessStep"}) :
           LET input == [navigationMethods |-> m @@ [f \in S |-> TRUE]] @@ p
           IN  Invoke("checkMultipleWays", EmptyRecord, input, checkMultipleWays(input))

call_checkConsistentNavigation ==
    /\ pc = "idle"
    /\ \E ps \in SeqsUpTo({[page |-> "/page", order |-> o] : o \in NavOrders}, MaxItems) :
           LET input == [navigationElements |-> ps]
           IN  Invoke("checkConsistentNavigation", EmptyRecord, input, checkConsistentNavigation(input))

call_checkConsistentIdentification ==
    /\ pc = "idle"
    /\ \E a \in {[components |-> cs] : cs \in SeqsUpTo(ComponentSamples, MaxItems)} :
           Invoke("checkConsistentIdentification", EmptyRecord, a,
                  checkConsistentIdentification(a))

-----------------------------------------------------------------------------
(* Calls of the keyboard checks                                            *)

TargetDimensions == {1600, 2399, 2400, 4399, 4400, 4800}

call_checkKeyboardAccessibility ==
    /\ pc = "idle"
    /\ \E e \in {"Button", "div"},
          b \in OptBools({"hasKeyboardAccess", "canEscapeFocus", "changesContextOnFocus"}),
          s \in {EmptyRecord, [hasCharacterShortcuts |-> FALSE],
                 [hasCharacterShortcuts |-> TRUE],
                 [hasCharacterShortcuts |-> TRUE, shortcutsConfigurable |-> FALSE],
                 [hasCharacterShortcuts |-> TRUE, shortcutsConfigurable |-> TRUE]},
          f \in {EmptyRecord, [isFocusable |-> FALSE],
                 [focusOrderIssues |-> << >>],
                 [isFocusable |-> TRUE, focusOrderIssues |-> <<"modal behind page">>]},
          t \in {EmptyRecord, [tabIndex |-> 0], [tabIndex |-> 5]} :
           LET input == [elementType |-> e] @@ b @@ s @@ f @@ t
           IN  Invoke("checkKeyboardAccessibility", EmptyRecord, input,
                      checkKeyboardAccessibility(input))

call_checkFocusIndicator ==
    /\ pc = "idle"
    /\ \E v \in BOOLEAN,
          c \in {EmptyRecord} \cup {[contrastRatio |-> r] : r \in {299, 300, 450}} :
           LET input == [isVisible |-> v] @@ c
           IN  Invoke("checkFocusIndicator", EmptyRecord, input, checkFocusIndicator(input))

call_checkTiming ==
    /\ pc = "idle"
    /\ \E h \in BOOLEAN,
          b \in OptBools({"canTurnOff", "canAdjust", "canExtend", "isEssential"}) :
           LET input == [hasTimeLimit |-> h] @@ b
           IN  Invoke("checkTiming", EmptyRecord, input, checkTiming(input))

call_checkMotionActuation ==
    /\ pc = "idle"
    /\ \E h \in BOOLEAN,
          b \in OptBools({"canDisableMotion", "hasAlternative", "isEssential"}) :
           LET input == [hasMotionActuation |-> h] @@ b
           IN  Invoke("checkMotionActuation", EmptyRecord, input, checkMotionActuation(input))

call_checkPointerGestures ==
    /\ pc = "idle"
    /\ \E m \in BOOLEAN, p \in BOOLEAN,
          b \in OptBools({"hasSinglePointerAlternative", "isEssential"}) :
           LET input == [hasMultipointGestures |-> m, hasPathBasedGestures |-> p] @@ b
           IN  Invoke("checkPointerGestures", EmptyRecord, input, checkPointerGestures(input))

call_checkPointerCancellation ==
    /\ pc = "idle"
    /\ \E b \in OptBools({"activatesOnDown", "canAbort", "canUndo", "isEssential"}) :
           LET input == [elementType |-> "button"] @@ b
           IN  Invoke("checkPointerCancellation", EmptyRecord, input, checkPointerCancellation(input))

call_checkTargetSize ==
    /\ pc = "idle"
    /\ \E w \in TargetDimensions, h \in TargetDimensions,
          s \in OptBools({"hasSpacing"}) :
           LET input == [elementType |-> "button", width |-> w, height |-> h] @@ s
           IN  Invoke("checkTargetSize", EmptyRecord, input, checkTargetSize(input))

-----------------------------------------------------------------------------
(* Calls of the ARIA checks                                                *)

AriaAttributeSamples ==
    {EmptyRecord,
     "aria-label" :> "Close",
     "aria-hidden" :> "true",
     "aria-expanded" :> "false" @@ "aria-checked" :> "true"}

LandmarkSamples ==
    {[role |-> "main"], [role |-> "navigation"],
     [role |-> "navigation", label |-> ""],
     [role |-> "navigation", label |-> "Main Nav"],
     [role |-> "navigation", label |-> "Footer Nav"],
     [role |-> "navigation", label |-> "(unlabeled)"]}

call_checkNameRoleValue ==
    /\ pc = "idle"
    /\ \E t \in {"div", "BUTTON"},
          r \in {EmptyRecord, [role |-> "button"], [role |-> "banana"]},
          n \in {EmptyRecord, [accessibleName |-> "  "], [accessibleName |-> "Submit"]},
          f \in OptBools({"isFocusable"}),
          s \in {EmptyRecord, [states |-> EmptyRecord], [states |-> [expanded |-> TRUE]]},
          c \in OptBools({"statesAreCommunicated"}) :
           LET input == [element |-> [tagName |-> t] @@ r @@ n @@ f] @@ s @@ c
           IN  Invoke("checkNameRoleValue", EmptyRecord, input, checkNameRoleValue(input))

call_checkStatusMessage ==
    /\ pc = "idle"
    /\ \E h \in BOOLEAN,
          l \in {EmptyRecord, [ariaLive |-> "polite"], [ariaLive |-> "assertive"]},
          b \in OptBools({"hasStatusRole", "hasAlertRole", "requiresFocus"}) :
           LET input == [hasLiveRegion |-> h] @@ l @@ b
           IN  Invoke("checkStatusMessage", EmptyRecord, input, checkStatusMessage(input))

call_checkAriaAttributes ==
    /\ pc = "idle"
    /\ \E r \in {EmptyRecord, [role |-> "button"], [role |-> "list"], [role |-> "checkbox"]},
          b \in OptBools({"isInteractive", "isFocusable"}),
          a \in {EmptyRecord} \cup {[ariaAttributes |-> v] : v \in AriaAttributeSamples} :
           LET input == [tagName |-> "div"] @@ r @@ b @@ a
           IN  Invoke("checkAriaAttributes", EmptyRecord, input, checkAriaAttributes(input))

call_checkLandmarks ==
    /\ pc = "idle"
    /\ \E a \in {[landmarks |-> ls] : ls \in SeqsUpTo(LandmarkSamples, MaxItems)} :
           Invoke("checkLandmarks", EmptyRecord, a, checkLandmarks(a.landmarks))

call_checkLabelInName ==
    /\ pc = "idle"
    /\ \E v \in {"Submit", " submit ", "Go", ""},
          a \in {"Submit Order", "Order Submit button", " SUBMIT", "Send", ""} :
           LET input == [visibleLabel |-> v, accessibleName |-> a]
           IN  Invoke("checkLabelInName", EmptyRecord, input, checkLabelInName(input))

-----------------------------------------------------------------------------
(* Calls of the form checks                                                *)

RequiredSamples ==
    {EmptyRecord, [isRequired |-> FALSE], [isRequired |-> TRUE],
     [isRequired |-> TRUE, requiredIndicatedVisually |-> TRUE],
     [isRequired |-> TRUE, requiredIndicatedProgrammatically |-> TRUE],
     [isRequired |-> TRUE, requiredIndicatedVisually |-> TRUE,
      requiredIndicatedProgrammatically |-> TRUE]}

AutocompleteSamples ==
    {"", "email", "shipping email", "email ", "emial", "constructor"}

FieldSamples ==
    {[fieldType |-> "text", hasVisibleLabel |-> TRUE, hasAccessibleLabel |-> TRUE,
      labelText |-> "Nickname"],
     [fieldType |-> "email", hasVisibleLabel |-> TRUE, hasAccessibleLabel |-> FALSE,
      autocomplete |-> "email"],
     [fieldType |-> "password", hasVisibleLabel |-> FALSE, hasAccessibleLabel |-> FALSE,
      isRequired |-> TRUE]}

call_checkFormLabels ==
    /\ pc = "idle"
    /\ \E v \in BOOLEAN, a \in BOOLEAN,
          l \in {EmptyRecord, [labelText |-> ""], [labelText |-> "Email"]},
          p \in OptBools({"placeholderAsLabel"}),
          r \in RequiredSamples :
           LET input == [fieldType |-> "text", hasVisibleLabel |-> v, hasAccessibleLabel |-> a]
                        @@ l @@ p @@ r
           IN  Invoke("checkFormLabels", EmptyRecord, input, checkFormLabels(input))

call_checkInputPurpose ==
    /\ pc = "idle"
    /\ \E t \in {"text", "email", "other"},
          p \in {EmptyRecord, [inputPurpose |-> "billing address"]},
          a \in {EmptyRecord} \cup {[autocomplete |-> v] : v \in AutocompleteSamples} :
           LET input == [fieldType |-> t, hasVisibleLabel |-> TRUE, hasAccessibleLabel |-> TRUE] @@ p @@ a
           IN  Invoke("checkInputPurpose", EmptyRecord, input, checkInputPurpose(input))

call_checkErrorIdentification ==
    /\ pc = "idle"
    /\ \E h \in BOOLEAN,
          b \in OptBools({"errorsInText", "errorFieldIdentified", "hasSuggestions"}),
          S \in SUBSET {"errorDescribed", "errorAnnounced"} :
           LET input == [hasErrors |-> h] @@ b @@ [f \in S |-> TRUE]
           IN  Invoke("checkErrorIdentification", EmptyRecord, input, checkErrorIdentification(input))

call_checkErrorPrevention ==
    /\ pc = "idle"
    /\ \E t \in {"legal", "test", "other"},
          b \in OptBools({"isReversible", "dataIsChecked", "canReview",
                          "requiresConfirmation"}) :
           LET input == [transactionType |-> t] @@ b
           IN  Invoke("checkErrorPrevention", EmptyRecord, input, checkErrorPrevention(input))

call_checkInputConstraints ==
    /\ pc = "idle"
    /\ \E h \in BOOLEAN,
          b \in OptBools({"formatExplained", "exampleProvided", "hasRealtimeValidation"}) :
           LET input == [fieldName |-> "birth date", hasFormatRequirements |-> h] @@ b
           IN  Invoke("checkInputConstraints", EmptyRecord, input, checkInputConstraints(input))

call_checkOnInput ==
    /\ pc = "idle"
    /\ \E c \in BOOLEAN, w \in OptBools({"userWarned"}) :
           LET input == [elementType |-> "select", changesContextOnInput |-> c] @@ w
           IN  Invoke("checkOnInput", EmptyRecord, input, checkOnInput(input))

call_validateForm ==
    /\ pc = "idle"
    /\ \E fs \in SeqsUpTo(FieldSamples, MaxItems),
          e \in {EmptyRecord, [errors |-> [hasErrors |-> FALSE]],
                 [errors |-> [hasErrors |-> TRUE, errorsInText |-> TRUE]]} :
           LET input == [fields |-> fs] @@ e
           IN  Invoke("validateForm", EmptyRecord, input, validateForm(input))

-----------------------------------------------------------------------------
(* Calls of the media checks                                               *)

MediaType == {"audio", "video", "audio-video"}

call_checkCaptions ==
    /\ pc = "idle"
    /\ \E m \in MediaType, l \in BOOLEAN, c \in BOOLEAN,
          b \in OptBools({"areSynchronized", "includesNonSpeechAudio"}) :
           LET input == [mediaType |-> m, isLive |-> l, hasCaptions |-> c] @@ b
           IN  Invoke("checkCaptions", EmptyRecord, input, checkCaptions(input))

call_checkAudioDescription ==
    /\ pc = "idle"
    /\ \E v \in BOOLEAN, p \in BOOLEAN, d \in BOOLEAN,
          b \in OptBools({"hasExtendedDescription", "pausesAreSufficient",
                          "hasMediaAlternative"}) :
           LET input == [hasVideoContent |-> v, isPrerecorded |-> p, hasAudioDescription |-> d] @@ b
           IN  Invoke("checkAudioDescription", EmptyRecord, input, checkAudioDescription(input))

call_checkTranscript ==
    /\ pc = "idle"
    /\ \E m \in MediaType, t \in BOOLEAN,
          b \in OptBools({"includesVisualDescriptions"}) :
           LET input == [mediaType |-> m, hasTranscript |-> t] @@ b
           IN  Invoke("checkTranscript", EmptyRecord, input, checkTranscript(input))

call_checkMediaControls ==
    /\ pc = "idle"
    /\ \E a \in BOOLEAN,
          d \in {EmptyRecord} \cup {[autoplayDuration |-> v] : v \in {300, 301, 1000}},
          b \in OptBools({"canPause", "hasVolumeControl"}),
          S \in SUBSET {"canStop", "canMute"} :
           LET input == [autoplays |-> a] @@ d @@ b @@ [f \in S |-> TRUE]
           IN  Invoke("checkMediaControls", EmptyRecord, input, checkMediaControls(input))

call_checkAnimation ==
    /\ pc = "idle"
    /\ \E a \in BOOLEAN,
          d \in {EmptyRecord} \cup {[duration |-> v] : v \in {500, 501}},
          b \in OptBools({"canPause", "canStop", "canHide", "isEssential"}) :
           LET input == [hasAutoAnimation |-> a] @@ d @@ b
           IN  Invoke("checkAnimation", EmptyRecord, input, checkAnimation(input))

call_checkFlashing ==
    /\ pc = "idle"
    /\ \E h \in BOOLEAN,
          f \in {EmptyRecord} \cup {[flashesPerSecond |-> v] : v \in {0, 250, 300, 301, 400}},
          a \in {EmptyRecord} \cup {[flashAreaPercent |-> v] : v \in {2500, 2550, 3000}},
          b \in OptBools({"isBelowThreshold"}) :
           LET input == [hasFlashing |-> h] @@ f @@ a @@ b
           IN  Invoke("checkFlashing", EmptyRecord, input, checkFlashing(input))

call_checkSignLanguage ==
    /\ pc = "idle"
    /\ \E a \in [hasAudioContent : BOOLEAN, isPrerecorded : BOOLEAN, hasSignLanguage : BOOLEAN] :
           Invoke("checkSignLanguage", EmptyRecord, a, checkSignLanguage(a))

-----------------------------------------------------------------------------
(* Specifications                                                          *)

\* every exported check, called on its own and returning its verdicts
Next ==
    \/ call_checkContrastRatio
    \/ call_checkTextSpacing
    \/ call_checkLineLength
    \/ call_checkTextJustification
    \/ call_checkResizeText
    \/ call_checkLanguage
    \/ call_checkImagesOfText
    \/ call_validateAll
    \/ call_checkHeadingStructure
    \/ call_checkPageTitle
    \/ call_checkLinkPurpose
    \/ call_checkBypassBlocks
    \/ call_checkReadingOrder
    \/ call_checkInfoRelationships
    \/ call_checkMultipleWays
    \/ call_checkConsistentNavigation
    \/ call_checkConsistentIdentification
    \/ call_checkKeyboardAccessibility
    \/ call_checkFocusIndicator
    \/ call_checkTiming
    \/ call_checkMotionActuation
    \/ call_checkPointerGestures
    \/ call_checkPointerCancellation
    \/ call_checkTargetSize
    \/ call_checkNameRoleValue
    \/ call_checkStatusMessage
    \/ call_checkAriaAttributes
    \/ call_checkLandmarks
    \/ call_checkLabelInName
    \/ call_checkFormLabels
    \/ call_checkInputPurpose
    \/ call_checkErrorIdentification
    \/ call_checkErrorPrevention
    \/ call_checkInputConstraints
    \/ call_checkOnInput
    \/ call_validateForm
    \/ call_checkCaptions
    \/ call_checkAudioDescription
    \/ call_checkTranscript
    \/ call_checkMediaControls
    \/ call_checkAnimation
    \/ call_checkFlashing
    \/ call_checkSignLanguage
    \/ Return

Spec == Init /\ [][Next]_vars

\* a verdict sequence is reported, by the core builder or the text server's
NextReport ==
    \/ call_createReport
    \/ BuildReport
    \/ TextServerBuildReport
    \/ Respond

SpecReport == Init /\ [][NextReport]_vars

\* a session in which a call is picked, other checks run and reports are built,
\* and the picked call is made again
NextRepeat ==
    \/ call_checkContrastRatio
    \/ call_checkLineLength
    \/ Remember
    \/ BuildReport
    \/ TextServerBuildReport
    \/ Respond
    \/ Return

SpecRepeat == Init /\ [][NextRepeat]_vars
-----------------------------------------------------------------------------
(* Properties of the report builder, checked under SpecReport              *)

CountOf(rs, P(_)) == Cardinality({i \in 1..Len(rs) : P(rs[i])})

CoreReported == pc = "reported" /\ tool.builder = "core"

\* C1: for every verdict sequence V passed to createReport, summary.total is
\* the length of V, and passed + failed + warnings + (the number of info
\* verdicts of V) = total; hence passed + failed + warnings <= total, strictly
\* exactly when V holds an info verdict
C1_SummaryCountsEveryVerdict ==
    CoreReported =>
        LET s     == report.summary
            nInfo == CountOf(results, LAMBDA r : r.status = "info")
            sum   == s.passed + s.failed + s.warnings
        IN  /\ s.total = Len(results)
            /\ sum + nInfo = s.total
            /\ sum <= s.total
            /\ (sum < s.total) <=> (nInfo > 0)

\* a report of three verdicts of three statuses, one of them info
C1_Witness ==
    /\ CoreReported
    /\ Len(results) = MaxVerdicts
    /\ {results[i].status : i \in 1..Len(results)} = {"pass", "fail", "info"}
    /\ report.summary.passed + report.summary.failed + report.summary.warnings = 2

\* C10: each of the six per-level counters of createReport's summary is the
\* number of input verdicts of that level and exactly that status; warning
\* and info verdicts change no per-level counter
C10_LevelCountersCountPassAndFail ==
    CoreReported =>
        LET s == report.summary
            counter == [A |-> s.levelA, AA |-> s.levelAA, AAA |-> s.levelAAA]
        IN  \A l \in WcagLevel :
                /\ counter[l].passed
                     = CountOf(results, LAMBDA r : r.level = l /\ r.status = "pass")
                /\ counter[l].failed
                     = CountOf(results, LAMBDA r : r.level = l /\ r.status = "fail")

\* a report holding a warning and an info verdict next to a pass, at levels
\* whose counters the warning and the info leave alone
C10_Witness ==
    /\ CoreReported
    /\ \E i, j, k \in 1..Len(results) :
        /\ results[i].status = "warning" /\ results[i].level = "AAA"
        /\ results[j].status = "info" /\ results[j].level = "AA"
        /\ results[k].status = "pass" /\ results[k].level = "AAA"
    /\ report.summary.levelAAA = [passed |-> 1, failed |-> 0]
    /\ report.summary.levelAA = [passed |-> 0, failed |-> 0]

\* the sections of the human-readable report, in the order they are to appear
SectionStatus == << "fail", "warning", "info", "pass" >>

SectionTitle == << "(X) FAILURES", "(!)  WARNINGS", "(i)  INFO", "(v) PASSED" >>

EntryHeader(r) == "[" \o r.criterion \o "] " \o r.name \o " (Level " \o r.level \o ")"

\* the lines by which a reader recognises a verdict in section k: its header
\* and its message on two lines (failures, warnings) or on one (info, passes)
EntryLines(r, k) ==
    IF k <= 2 THEN << EntryHeader(r), "   " \o r.message >>
    ELSE << EntryHeader(r) \o ": " \o r.message >>

IsEntryLine(line) ==
    \/ startsWith(line, "[")
    \/ startsWith(line, "   ") /\ ~startsWith(line, "   -> ")

\* the entry lines of the section whose title is at line t of L
SectionEntryLines(L, t) ==
    LET ends == {j \in (t + 1)..Len(L) :
                    L[j] = DoubleRule \/ \E k \in 1..4 : L[j] = SectionTitle[k]}
        end  == CHOOSE j \in ends : \A j2 \in ends : j <= j2
    IN  SelectSeq(SubSeq(L, t + 1, end - 1), IsEntryLine)

RenderedInOrder(human, rs) ==
    LET L == split(human, "\n")
        body == SubSeq(L, 4, Len(L))
        titleAt(k) == {i \in 1..Len(body) : body[i] = SectionTitle[k]}
        bucket(k) == SelectSeq(rs, LAMBDA r : r.status = SectionStatus[k])
        at(k) == CHOOSE i \in titleAt(k) : TRUE
    IN  /\ \A k \in 1..4 :
            IF Len(bucket(k)) = 0 THEN titleAt(k) = {}
            ELSE /\ Cardinality(titleAt(k)) = 1
                 /\ SectionEntryLines(body, at(k))
                      = flatten([i \in 1..Len(bucket(k)) |-> EntryLines(bucket(k)[i], k)])
        /\ \A k1, k2 \in 1..4 :
            (k1 < k2 /\ titleAt(k1) # {} /\ titleAt(k2) # {}) => at(k1) < at(k2)

\* C6: in the human-readable report the sections come in the order failures,
\* warnings, info, passes, and every input verdict is rendered exactly once,
\* in the section of its status and in its input order; this for the core
\* report builder and for the text server's own report builder
C6_HumanReportRendersEveryVerdict ==
    pc = "reported" => RenderedInOrder(report.human, results)

\* C11: the results array of the machine-readable report has the length and
\* the order of the input verdict sequence; each entry copies its verdict's
\* fields and adds the url of the catalog entry of the verdict's criterion;
\* when the id is not in the catalog the url is absent (and nothing fails)
C11_MachineEntriesCopyVerdictsAndAddUrl ==
    CoreReported =>
        LET m == report.machine.results
        IN  /\ Len(m) = Len(results)
            /\ \A i \in 1..Len(results) :
                /\ DOMAIN m[i] \ {"url"} = DOMAIN results[i]
                /\ \A f \in DOMAIN results[i] : m[i][f] = results[i][f]
                /\ IF results[i].criterion \in DOMAIN WCAG_CRITERIA
                   THEN /\ "url" \in DOMAIN m[i]
                        /\ m[i].url = WCAG_CRITERIA[results[i].criterion].url
                   ELSE "url" \notin DOMAIN m[i]

\* a report of a catalogued verdict followed by one with a dangling id: the
\* first entry has its url, the second has none
C11_Witness ==
    /\ CoreReported
    /\ Len(results) = 2
    /\ results[1].criterion = "1.4.3"
    /\ results[2] = DanglingVerdict
    /\ report.machine.results[1].url = "https://www.w3.org/TR/WCAG21/#contrast-minimum"
    /\ "url" \notin DOMAIN report.machine.results[2]

\* C30: in every report that createReport builds, the per-level tallies add
\* up to the overall ones (levelA.passed + levelAA.passed + levelAAA.passed =
\* summary.passed, and the same for failed), and the summary of the machine
\* report (total, passed, failed, warnings) equals the same fields of the
\* report's summary.
C30_LevelTalliesAddUp ==
    pc = "reported" =>
        LET s == report.summary
            m == report.machine.summary
        IN  /\ s.levelA.passed + s.levelAA.passed + s.levelAAA.passed = s.passed
            /\ s.levelA.failed + s.levelAA.failed + s.levelAAA.failed = s.failed
            /\ m.total = s.total
            /\ m.passed = s.passed
            /\ m.failed = s.failed
            /\ m.warnings = s.warnings

\* a report of a pass at level A, a fail at AA and a pass at AAA has been built
C30_Witness ==
    /\ CoreReported
    /\ report.summary.passed = 2
    /\ report.summary.failed = 1
    /\ report.summary.levelA.passed = 1
    /\ report.summary.levelAAA.passed = 1
    /\ report.summary.levelAA.failed = 1
    /\ report.machine.summary.passed = 2
-----------------------------------------------------------------------------
(* Properties of the check functions, checked under Spec                   *)

Checked(name) == pc = "checked" /\ tool.name = name

VerdictsWith(status) == {i \in 1..Len(results) : results[i].status = status}

\* C2: every criterion id a check function places in a verdict is a key of
\* the criteria catalog WCAG_CRITERIA, so getCriterion is never undefined for
\* a verdict a check produced
C2_EveryCriterionIsCatalogued ==
    \A i \in 1..Len(results) :
        /\ results[i].criterion \in DOMAIN WCAG_CRITERIA
        /\ getCriterion(results[i].criterion) # Undefined

\* full text validation has returned verdicts under seven criteria or more
C2_Witness ==
    /\ Checked("validateAll")
    /\ Cardinality({results[i].criterion : i \in 1..Len(results)}) >= 7
    /\ \A i \in 1..Len(results) :
        getCriterion(results[i].criterion).id = results[i].criterion

\* C3: every verdict with status fail that a check function emits carries a
\* recommendation, present and non-empty
C3_EveryFailCarriesRecommendation ==
    \A i \in VerdictsWith("fail") : TruthyStr(results[i], "recommendation")

\* C4: every verdict with status warning that a check function emits carries
\* a recommendation, present and non-empty
C4_EveryWarningCarriesRecommendation ==
    \A i \in VerdictsWith("warning") : TruthyStr(results[i], "recommendation")

\* C5: in every verdict a check function emits, name and level are the name
\* and the level of the catalog entry of the verdict's criterion
C5_NameAndLevelAreTheCatalogs ==
    \A i \in 1..Len(results) :
        results[i].criterion \in DOMAIN WCAG_CRITERIA =>
            /\ results[i].name = WCAG_CRITERIA[results[i].criterion].name
            /\ results[i].level = WCAG_CRITERIA[results[i].criterion].level

Parses(color) == color \in DOMAIN ColorTable

\* C7: checkContrastRatio returns, when the foreground or the background does
\* not parse, exactly one verdict, 1.4.3 (AA) fail with the message
\* "Invalid color: " and a colour string that failed, and no 1.4.6 verdict;
\* when both colours parse, exactly two verdicts, 1.4.3 then 1.4.6
C7_InvalidColorIsOneFailVerdict ==
    Checked("checkContrastRatio") =>
        LET failed == {c \in {args.foreground, args.background} : ~Parses(c)}
        IN  IF failed # {}
            THEN /\ Len(results) = 1
                 /\ results[1].criterion = "1.4.3"
                 /\ results[1].level = "AA"
                 /\ results[1].status = "fail"
                 /\ \E c \in failed : results[1].message = "Invalid color: " \o c
            ELSE /\ Len(results) = 2
                 /\ results[1].criterion = "1.4.3"
                 /\ results[2].criterion = "1.4.6"

\* the foreground parses, the background does not, and the verdict names it
C7_Witness ==
    /\ Checked("checkContrastRatio")
    /\ Parses(args.foreground)
    /\ args.background = "notacolor"
    /\ results = << CheckResult("1.4.3", "Contrast (Minimum)", "AA", "fail",
                        "Invalid color: notacolor") >>

\* C8: for parseable colours the two contrast verdicts satisfy: AA fail
\* implies AAA fail; AA pass with the ratio below the AAA threshold implies
\* AAA warning; AAA is pass exactly when the ratio is at least the AAA
\* threshold.  The ratio is the one rounded to two decimals; the threshold
\* is 4.5 for large text (24px, or 18.66px bold) and 7 otherwise
C8_EnhancedContrastFollowsMinimum ==
    (Checked("checkContrastRatio") /\ Parses(args.foreground) /\ Parses(args.background)) =>
        LET bold  == Has(args, "isBold") /\ args.isBold
            large == args.sizePx >= 2400 \/ (bold /\ args.sizePx >= 1866)
            threshold == IF large THEN 450 ELSE 700
            ratio == RoundToHundredths(wcagContrast(parse(args.foreground),
                                                    parse(args.background)))
            aa  == results[1].status
            aaa == results[2].status
        IN  /\ results[2].value = ratio
            /\ aa = "fail" => aaa = "fail"
            /\ (aa = "pass" /\ ratio < threshold) => aaa = "warning"
            /\ (aaa = "pass") <=> (ratio >= threshold)

\* a pair that meets the minimum but not the enhanced contrast
C8_Witness ==
    /\ Checked("checkContrastRatio")
    /\ Len(results) = 2
    /\ results[1].status = "pass"
    /\ results[2].status = "warning"
    /\ results[2].value < 700

InvalidColorInput == ~Parses(args.foreground) \/ ~Parses(args.background)

\* the verdicts of the checks that follow the contrast check, line length
\* running when lineLength says so
RemainingChecks(input, lineLength) ==
    checkTextSpacing(SpacingArgs(input))
    \o (IF lineLength THEN checkLineLength(input.sampleText) ELSE << >>)
    \o (IF Has(input, "isJustified")
        THEN checkTextJustification(input.isJustified) ELSE << >>)
    \o (IF Has(input, "usesRelativeUnits") \/ Has(input, "hasFixedContainers")
        THEN checkResizeText(OrDefault(input, "usesRelativeUnits", TRUE),
                             OrDefault(input, "hasFixedContainers", FALSE))
        ELSE << >>)
    \o (IF Has(input, "hasLangAttribute")
        THEN checkLanguage([f \in DOMAIN input \cap {"hasLangAttribute", "langValue"}
                              |-> input[f]])
        ELSE << >>)
    \o (IF Has(input, "hasImagesOfText")
        THEN checkImagesOfText(input.hasImagesOfText,
                               OrDefault(input, "imagesAreEssential", FALSE))
        ELSE << >>)

InvalidColorVerdict ==
    CheckResult("1.4.3", "Contrast (Minimum)", "AA", "fail",
        "Invalid color: "
        \o (IF Parses(args.foreground) THEN args.background ELSE args.foreground))

\* what validateAll returns for the same input with parseable colours, less
\* the two contrast verdicts
AsForParseableColors ==
    LET valid == [args EXCEPT !.foreground = "#333333", !.background = "#ffffff"]
        all   == validateAll(valid)
    IN  SubSeq(all, 3, Len(all))

\* C9, as stated: validateAll on an unparseable colour returns the single
\* invalid-colour fail verdict and then the verdicts of all remaining checks
\* in the fixed order text spacing (always), line length, justification,
\* resize/reflow, language, images of text, each when its input is supplied
C9_Original_EveryCheckWhoseInputIsSupplied ==
    (Checked("validateAll") /\ InvalidColorInput) =>
        results = << InvalidColorVerdict >>
                  \o RemainingChecks(args, Has(args, "sampleText"))

\* C9, amended: the same, line length running only when a non-empty sample
\* text is supplied (an empty sample text is treated as none), and the
\* remaining verdicts being exactly those of a parseable colour
C9_InvalidColorDoesNotAbortValidateAll ==
    (Checked("validateAll") /\ InvalidColorInput) =>
        /\ results = << InvalidColorVerdict >>
                     \o RemainingChecks(args, TruthyStr(args, "sampleText"))
        /\ SubSeq(results, 2, Len(results)) = AsForParseableColors

\* an unparseable foreground with every optional input supplied: the
\* invalid-colour verdict is followed by those of the six remaining checks
C9_Witness ==
    /\ Checked("validateAll")
    /\ args.foreground = "notacolor"
    /\ {"sampleText", "isJustified", "usesRelativeUnits", "hasLangAttribute",
        "hasImagesOfText"} \subseteq DOMAIN args
    /\ args.sampleText # ""
    /\ Len(results) >= 7
    /\ results[1].message = "Invalid color: notacolor"
    /\ results[Len(results)].criterion = "1.4.5"

\* the multipliers of font size that bound the four spacing dimensions
SpacingMultiplier ==
    [lineHeight |-> 150, paragraphSpacing |-> 200, letterSpacing |-> 12,
     wordSpacing |-> 16]

\* C12: checkTextSpacing returns exactly one verdict: info when none of the
\* four spacing values is supplied; otherwise pass if and only if every
\* supplied value v satisfies v >= fontSize x multiplier (line-height 1.5,
\* paragraph-spacing 2.0, letter-spacing 0.12, word-spacing 0.16), equality
\* passing, and fail otherwise
C12_TextSpacingPassesAtTheBoundary ==
    Checked("checkTextSpacing") =>
        LET supplied == DOMAIN args \cap DOMAIN SpacingMultiplier
        IN  /\ Len(results) = 1
            /\ IF supplied = {} THEN results[1].status = "info"
               ELSE /\ results[1].status \in {"pass", "fail"}
                    /\ (results[1].status = "pass") <=>
                         \A f \in supplied :
                            args[f] * 100 >= args.fontSize * SpacingMultiplier[f]

\* the heading-order verdicts among the results: the skip warning and the
\* logical-sequence pass
HeadingOrderVerdicts ==
    {i \in 1..Len(results) :
        /\ results[i].criterion = "1.3.1"
        /\ startsWith(results[i].message, "Heading levels ")}

\* the transitions of the heading sequence hs that go more than one level
\* deeper, in order, each as "hN -> hM" with the text of the heading reached
SkipTransitions(hs) ==
    LET at == SelectSeq([i \in 1..(Len(hs) - 1) |-> i + 1],
                        LAMBDA i : hs[i].level > hs[i - 1].level + 1)
    IN  [k \in 1..Len(at) |->
            "h" \o ToString(hs[at[k] - 1].level) \o " -> h" \o ToString(hs[at[k]].level)
            \o " (\"" \o hs[at[k]].text \o "\")"]

\* C13: for a non-empty heading sequence checkHeadingStructure emits exactly
\* one heading-order verdict: a warning listing every transition in which a
\* heading's level exceeds its predecessor's by more than 1, if there is one,
\* and a pass if there is none; backward jumps and forward jumps of exactly
\* 1 are never listed
C13_HeadingSkipsAreListedOnce ==
    (Checked("checkHeadingStructure") /\ Len(args.headings) > 0) =>
        LET skips == SkipTransitions(args.headings)
        IN  /\ Cardinality(HeadingOrderVerdicts) = 1
            /\ \A i \in HeadingOrderVerdicts :
                IF Len(skips) > 0
                THEN /\ results[i].status = "warning"
                     /\ results[i].message
                          = "Heading levels skipped: " \o join(skips, "; ")
                ELSE results[i].status = "pass"

\* [h1, h2, h4] yields the warning that mentions "h2 -> h4"
C13_Witness ==
    /\ Checked("checkHeadingStructure")
    /\ [i \in 1..Len(args.headings) |-> args.headings[i].level] = << 1, 2, 4 >>
    /\ \E i \in HeadingOrderVerdicts :
        /\ results[i].status = "warning"
        /\ includes(results[i].message, "h2 -> h4")
        /\ ~includes(results[i].message, "h1 -> h2")

\* the positions of the landmarks of a role in the input of checkLandmarks
LandmarksOf(role) ==
    {i \in 1..Len(args.landmarks) : args.landmarks[i].role = role}

\* the landmarks of a role carry pairwise-distinct, non-empty labels
DistinctNonEmptyLabels(role) ==
    /\ \A i \in LandmarksOf(role) :
        Has(args.landmarks[i], "label") /\ args.landmarks[i].label # ""
    /\ \A i, j \in LandmarksOf(role) :
        i # j => args.landmarks[i].label # args.landmarks[j].label

\* the verdicts about the landmarks of a role: those whose value is
\* "<count> <role> landmarks"
VerdictsOfRole(role) ==
    {i \in 1..Len(results) :
        /\ Has(results[i], "value")
        /\ results[i].value
             = ToString(Cardinality(LandmarksOf(role))) \o " " \o role \o " landmarks"}

\* C14: for every role that occurs more than once checkLandmarks emits
\* exactly one verdict for that role, pass if and only if all landmarks of
\* the role carry pairwise-distinct, non-empty labels, and fail otherwise
C14_RepeatedRoleNeedsDistinctLabels ==
    Checked("checkLandmarks") =>
        \A role \in {args.landmarks[i].role : i \in 1..Len(args.landmarks)} :
            Cardinality(LandmarksOf(role)) > 1 =>
                /\ Cardinality(VerdictsOfRole(role)) = 1
                /\ \A i \in VerdictsOfRole(role) :
                    results[i].status
                      = IF DistinctNonEmptyLabels(role) THEN "pass" ELSE "fail"

\* C15: checkLabelInName, after lower-casing and trimming both strings,
\* emits a first verdict that is pass if and only if the accessible name
\* contains the visible label (fail otherwise), and one more verdict, a
\* warning, if and only if the label is contained but the accessible name
\* does not start with it
C15_LabelInNameAfterNormalizing ==
    Checked("checkLabelInName") =>
        LET visible    == trim(toLowerCase(args.visibleLabel))
            accessible == trim(toLowerCase(args.accessibleName))
            contained  == \E i \in 1..(Len(accessible) - Len(visible) + 1) :
                              SubSeq(accessible, i, i + Len(visible) - 1) = visible
            atStart    == /\ Len(visible) <= Len(accessible)
                          /\ SubSeq(accessible, 1, Len(visible)) = visible
        IN  /\ results[1].status = IF contained THEN "pass" ELSE "fail"
            /\ IF contained /\ ~atStart
               THEN Len(results) = 2 /\ results[2].status = "warning"
               ELSE Len(results) = 1

\* "Submit" / "Order Submit button" gives a pass and the not-at-start warning
C15_Witness ==
    /\ Checked("checkLabelInName")
    /\ args = [visibleLabel |-> "Submit", accessibleName |-> "Order Submit button"]
    /\ Len(results) = 2
    /\ results[1].status = "pass"
    /\ results[2].status = "warning"
    /\ results[2].message = "Visible label is not at the start of accessible name"

\* C16: for flashing content with isBelowThreshold not set, the 2.3.1
\* verdict of checkFlashing is pass if and only if flashesPerSecond <= 3
\* (3 itself passing) and fail otherwise; at 4 flashes per second it is fail
\* and the 2.3.2 verdict is warning
C16_ThreeFlashesIsTheInclusiveBoundary ==
    (/\ Checked("checkFlashing")
     /\ args.hasFlashing
     /\ ~Truthy(args, "isBelowThreshold")
     /\ Has(args, "flashesPerSecond")) =>
        /\ Len(results) >= 2
        /\ results[1].criterion = "2.3.1"
        /\ results[1].status = IF args.flashesPerSecond <= 300 THEN "pass" ELSE "fail"
        /\ results[2].criterion = "2.3.2"
        /\ args.flashesPerSecond = 400 => results[2].status = "warning"

\* exactly three flashes per second, no threshold flag: the 2.3.1 verdict
\* passes
C16_Witness ==
    /\ Checked("checkFlashing")
    /\ args.hasFlashing
    /\ ~Has(args, "isBelowThreshold")
    /\ Has(args, "flashesPerSecond") /\ args.flashesPerSecond = 300
    /\ results[1].criterion = "2.3.1" /\ results[1].status = "pass"
    /\ results[2].status = "warning"

\* the lines of a text split on its line breaks, a line break being a line
\* feed or a carriage return followed by a line feed
LinesOf(text) ==
    LET pieces == split(text, "\n")
    IN  [i \in 1..Len(pieces) |->
            IF /\ i < Len(pieces)
               /\ Len(pieces[i]) > 0
               /\ CharAt(pieces[i], Len(pieces[i])) = "\r"
            THEN SubSeq(pieces[i], 1, Len(pieces[i]) - 1)
            ELSE pieces[i]]

LongestLine(text) ==
    LET lengths == {Len(LinesOf(text)[i]) : i \in 1..Len(LinesOf(text))}
    IN  CHOOSE m \in lengths : \A n \in lengths : n <= m

\* C17: checkLineLength returns exactly one verdict whose observed value is
\* the length of the longest line of the text split on line breaks and whose
\* required value is 80; its status is pass if and only if that maximum is
\* <= 80 and warning otherwise, never fail
C17_LongestLineAgainstEighty ==
    Checked("checkLineLength") =>
        /\ Len(results) = 1
        /\ results[1].value = LongestLine(args.text)
        /\ results[1].required = 80
        /\ results[1].status = IF LongestLine(args.text) <= 80 THEN "pass" ELSE "warning"

\* the identifiers given to a function in any component record of the input
IdentifiersOf(fn) ==
    UNION {SetOf(args.components[i].identifiers) :
              i \in {j \in 1..Len(args.components) : args.components[j].function = fn}}

FunctionsNamed == {args.components[i].function : i \in 1..Len(args.components)}

\* C19: checkConsistentIdentification fails whenever some function has more
\* than one distinct identifier anywhere in the input, also when the differing
\* identifiers come in separate component records naming the same function,
\* and passes only when every function has exactly one identifier overall.
C19_OneIdentifierPerFunctionOverall ==
    Checked("checkConsistentIdentification") =>
        /\ Len(results) = 1
        /\ (\E fn \in FunctionsNamed : Cardinality(IdentifiersOf(fn)) > 1)
               => results[1].status = "fail"
        /\ results[1].status = "pass"
               => \A fn \in FunctionsNamed : Cardinality(IdentifiersOf(fn)) = 1
        /\ results[1].status \in {"pass", "fail"}

\* C20: given at least two pages, checkConsistentNavigation passes exactly
\* when every page's order list equals the first page's list as a sequence,
\* and fails otherwise.
C20_NavigationPassesIffSequencesEqual ==
    (Checked("checkConsistentNavigation") /\ Len(args.navigationElements) >= 2) =>
        /\ Len(results) = 1
        /\ results[1].status =
               IF \A i \in 1..Len(args.navigationElements) :
                      args.navigationElements[i].order = args.navigationElements[1].order
               THEN "pass" ELSE "fail"

\* some error-prevention mechanism is set in the request
AnyPrevention ==
    \E f \in {"isReversible", "dataIsChecked", "canReview", "requiresConfirmation"} :
        Truthy(args, f)

\* C21: checkErrorPrevention judges Error Prevention (All), 3.3.6, for every
\* transaction type: its output always holds a 3.3.6 verdict, pass exactly when
\* some prevention mechanism is set; the 3.3.4 verdict is a pass/fail judgement
\* only for legal, financial and data-modification transactions.
C21_ErrorPreventionAllIsAlwaysJudged ==
    Checked("checkErrorPrevention") =>
        /\ \E i \in 1..Len(results) :
              /\ results[i].criterion = "3.3.6"
              /\ results[i].status = "pass" <=> AnyPrevention
        /\ \A i \in 1..Len(results) :
              results[i].criterion = "3.3.4" =>
                  IF inArray(highStakes, args.transactionType)
                  THEN results[i].status = (IF AnyPrevention THEN "pass" ELSE "fail")
                  ELSE results[i].status \notin {"pass", "fail"}

\* the checks that exempt what is essential to the activity
ExemptingChecks ==
    {"checkTiming", "checkMotionActuation", "checkPointerGestures",
     "checkPointerCancellation"}

\* C22: checkTiming, checkMotionActuation, checkPointerGestures and
\* checkPointerCancellation return exactly one verdict, a pass, whenever
\* isEssential is true, whatever the other fields of the input are.
C22_EssentialIsOnePass ==
    (pc = "checked" /\ tool.name \in ExemptingChecks /\ Truthy(args, "isEssential")) =>
        /\ Len(results) = 1
        /\ results[1].status = "pass"

\* an essential complex gesture without a single-pointer alternative has been
\* checked
C22_Witness ==
    /\ Checked("checkPointerGestures")
    /\ Truthy(args, "isEssential")
    /\ args.hasMultipointGestures
    /\ ~Truthy(args, "hasSinglePointerAlternative")
    /\ Len(results) = 1
    /\ results[1].status = "pass"

\* the final space-separated token of an autocomplete value
FinalToken(value) == split(value, " ")[Len(split(value, " "))]

\* C23: given an autocomplete value, checkInputPurpose returns exactly one
\* verdict, a pass exactly when the final space-separated token of the value
\* is an entry of the autocomplete token table and a warning for every other
\* token; it never returns a fail.
C23_InputPurposePassesOnTableTokensOnly ==
    Checked("checkInputPurpose") =>
        /\ \A i \in 1..Len(results) : results[i].status # "fail"
        /\ TruthyStr(args, "autocomplete") =>
              /\ Len(results) = 1
              /\ results[1].status =
                     IF FinalToken(args.autocomplete) \in DOMAIN VALID_AUTOCOMPLETE_TOKENS
                     THEN "pass" ELSE "warning"

\* the link text in hand, lower-cased and trimmed, is one of the generic phrases
GenericLinkText == inArray(genericTexts, trim(toLowerCase(args.linkText)))

\* C24: the in-context verdict of checkLinkPurpose (2.4.4) is a pass exactly
\* when isDescriptive is true, or the link text is generic and hasContext is
\* true, and a fail otherwise; the link-only verdict (2.4.9) is a pass exactly
\* when isDescriptive is true and the text is not generic, and a warning
\* otherwise, whatever hasContext is.
C24_LinkPurposeInContextAndLinkOnly ==
    Checked("checkLinkPurpose") =>
        /\ Len(results) >= 2
        /\ results[1].criterion = "2.4.4"
        /\ results[1].status =
               IF Truthy(args, "isDescriptive")
                  \/ (GenericLinkText /\ Truthy(args, "hasContext"))
               THEN "pass" ELSE "fail"
        /\ results[2].criterion = "2.4.9"
        /\ results[2].status =
               IF Truthy(args, "isDescriptive") /\ ~GenericLinkText
               THEN "pass" ELSE "warning"

\* a link whose text is a generic phrase in other case and with blanks around
\* it, not descriptive but with context, has been checked
C24_Witness ==
    /\ Checked("checkLinkPurpose")
    /\ args.linkText = " Read More "
    /\ ~Truthy(args, "isDescriptive")
    /\ Truthy(args, "hasContext")
    /\ results[1].status = "pass"
    /\ results[2].status = "warning"

ParseableContrastCall ==
    Checked("checkContrastRatio") /\ Parses(args.foreground) /\ Parses(args.background)

\* the contrast ratio of the colours in hand, rounded to two decimals
RoundedRatio ==
    RoundToHundredths(wcagContrast(parse(args.foreground), parse(args.background)))

\* C25: checkContrastRatio takes text as large exactly when its size is at
\* least 24px, or it is bold and at least 18.66px; it requires 4.5 (normal) or
\* 3 (large) for the AA verdict and 7 (normal) or 4.5 (large) for the AAA
\* verdict; the AA verdict is a pass exactly when the rounded ratio is at
\* least its required value; and both verdicts carry the rounded ratio as
\* value and their own threshold as required.
C25_LargeTextSelectsTheThresholds ==
    ParseableContrastCall =>
        LET large == \/ args.sizePx >= 2400
                     \/ (Truthy(args, "isBold") /\ args.sizePx >= 1866)
        IN  /\ results[1].required = (IF large THEN 300 ELSE 450)
            /\ results[2].required = (IF large THEN 450 ELSE 700)
            /\ results[1].value = RoundedRatio
            /\ results[2].value = RoundedRatio
            /\ (results[1].status = "pass") <=> (RoundedRatio >= results[1].required)
            /\ results[1].status \in {"pass", "fail"}

\* bold text of exactly 18.66px has been checked at a ratio that meets the
\* requirement of large text and not that of normal text
C25_Witness ==
    /\ ParseableContrastCall
    /\ args.sizePx = 1866
    /\ Truthy(args, "isBold")
    /\ results[1].required = 300
    /\ results[1].status = "pass"
    /\ results[1].value < 450

\* the explicit role of the element in hand when one is supplied, otherwise the
\* implicit role of its tag: an optional "role" property
EffectiveRole ==
    IF Has(args.element, "role")
    THEN [role |-> args.element.role]
    ELSE getImplicitRole(args.element.tagName)

\* the verdicts in hand whose message holds the given text
VerdictsSaying(text) == SelectSeq(results, LAMBDA r : includes(r.message, text))

\* C26: checkNameRoleValue takes the explicit role when one is supplied and
\* otherwise the implicit role of the tag; it returns an accessible-name
\* verdict exactly when that role requires a name, a pass exactly when the
\* accessible name is non-empty after trimming; it returns a verdict on the
\* communication of states whenever some state field is supplied; and it
\* returns a fail for an interactive role on an element that is not focusable.
C26_NameRoleValueVerdicts ==
    Checked("checkNameRoleValue") =>
        LET needsName == /\ Has(EffectiveRole, "role")
                         /\ inArray(ROLES_REQUIRING_NAME, EffectiveRole.role)
            hasName == /\ Has(args.element, "accessibleName")
                       /\ Len(trim(args.element.accessibleName)) > 0
            names == VerdictsSaying("accessible name")
            statesSupplied == Has(args, "states") /\ DOMAIN args.states # {}
            notFocusable == /\ Has(args.element, "isFocusable")
                            /\ ~args.element.isFocusable
            interactive == /\ Has(EffectiveRole, "role")
                           /\ inArray(INTERACTIVE_ROLES, EffectiveRole.role)
        IN  /\ Len(names) = (IF needsName THEN 1 ELSE 0)
            /\ needsName => names[1].status = (IF hasName THEN "pass" ELSE "fail")
            /\ statesSupplied => Len(VerdictsSaying("State changes")) = 1
            /\ (interactive /\ notFocusable) =>
                   /\ Len(VerdictsSaying("not keyboard focusable")) = 1
                   /\ VerdictsSaying("not keyboard focusable")[1].status = "fail"

\* C27: the first verdict of checkTargetSize is a pass exactly when width and
\* height are both at least 44, and a warning otherwise, never a fail; a
\* second verdict, a warning, is returned exactly when the smaller of width
\* and height is below 24, whatever the status of the first.
C27_TargetSizeVerdicts ==
    Checked("checkTargetSize") =>
        LET small == args.width < 2400 \/ args.height < 2400
        IN  /\ results[1].status =
                   IF args.width >= 4400 /\ args.height >= 4400
                   THEN "pass" ELSE "warning"
            /\ Len(results) = (IF small THEN 2 ELSE 1)
            /\ small => results[2].status = "warning"

\* a target that is wide enough and less than 24 high has been checked
C27_Witness ==
    /\ Checked("checkTargetSize")
    /\ args.width >= 4400
    /\ args.height = 2399
    /\ Len(results) = 2
    /\ results[1].status = "warning"
    /\ results[2].status = "warning"

\* C28: checkHeadingStructure returns exactly one verdict, a warning, for an
\* empty heading sequence; for a non-empty one it returns a warning about h1
\* exactly when the h1 count (the supplied h1Count when given, otherwise the
\* number of level-1 headings) is 0 or above 1 and no verdict about h1 when
\* the count is 1, and a 2.4.10 verdict that is a pass exactly when there are
\* at least 2 headings.
C28_HeadingStructureVerdicts ==
    Checked("checkHeadingStructure") =>
        IF Len(args.headings) = 0
        THEN Len(results) = 1 /\ results[1].status = "warning"
        ELSE
        LET count == IF Has(args, "h1Count") THEN args.h1Count
                     ELSE Cardinality({i \in 1..Len(args.headings) :
                                          args.headings[i].level = 1})
            h1s == VerdictsSaying("h1 heading")
            sections == SelectSeq(results, LAMBDA r : r.criterion = "2.4.10")
        IN  /\ Len(h1s) = (IF count = 0 \/ count > 1 THEN 1 ELSE 0)
            /\ \A i \in 1..Len(h1s) : h1s[i].status = "warning"
            /\ Len(sections) = 1
            /\ sections[1].status =
                   IF Len(args.headings) >= 2 THEN "pass" ELSE "warning"

\* a sequence of two level-1 headings has been checked under a supplied
\* h1Count of 1
C28_Witness ==
    /\ Checked("checkHeadingStructure")
    /\ Len(args.headings) = 2
    /\ \A i \in 1..2 : args.headings[i].level = 1
    /\ Has(args, "h1Count") /\ args.h1Count = 1
    /\ Len(VerdictsSaying("h1 heading")) = 0
    /\ results[Len(results)].status = "pass"

\* C29: for parseable colours, any size and any bold flag, a pass of the
\* enhanced contrast verdict (1.4.6) implies a pass of the minimum one
\* (1.4.3): a failing 1.4.3 never comes with a passing or a warning 1.4.6,
\* as the enhanced threshold of each text-size class is at least its minimum
\* threshold.
C29_EnhancedPassImpliesMinimumPass ==
    ParseableContrastCall =>
        /\ results[1].criterion = "1.4.3" /\ results[2].criterion = "1.4.6"
        /\ results[2].status = "pass" => results[1].status = "pass"
        /\ results[1].status = "fail" => results[2].status \notin {"pass", "warning"}
        /\ results[2].required >= results[1].required

\* large text has passed both contrast verdicts at a ratio below 7
C29_Witness ==
    /\ ParseableContrastCall
    /\ results[1].status = "pass"
    /\ results[2].status = "pass"
    /\ results[2].required = 450
    /\ results[2].value < 700

-----------------------------------------------------------------------------
(* Properties of repeated calls, under SpecRepeat                          *)

\* the call in hand is the picked call made again
Repeated ==
    /\ pc \in {"checked", "reported"}
    /\ earlier.name = tool.name
    /\ earlier.args = args

\* the report the builder in use renders of the verdicts in hand at an instant
ReportAt(now) ==
    IF tool.builder = "core"
    THEN createReport(results, tool.options, now)
    ELSE textServer_createReport(results, now)

=============================================================================
